---- MODULE Spec2Model ----
(***************************************************************************)
(* Shard distributor: the executor heartbeat handler (EWMA load            *)
(* smoothing, rate gate) and the load balancer (assignUnassignedShards,    *)
(* redistributeToEmptyExecutors) of service/sharddistributor.              *)
(*                                                                         *)
(* Conventions.                                                            *)
(*  - A Go map is a TLA+ function; a missing key reads as the zero value.  *)
(*  - A Go slice is a sequence.                                            *)
(*  - A float64 is a record [k, v]: k = "fin" with v the value in          *)
(*    1/Scale units, or k = "nan", or k = "inf" with v the sign.           *)
(*  - Time is counted in ticks of 1/TicksPerSec second; Unix(t) is the     *)
(*    truncation to whole seconds that time.Time.Unix() performs.          *)
(***************************************************************************)
EXTENDS Integers, Sequences, FiniteSets, TLC

\* ------------------------------------------------------------------ bounds

\* The last tick of the time source; it starts at one second, tick TicksPerSec.
MaxTime == 6
\* Heartbeat calls started in one behaviour (caps the EWMA's precision too).
MaxCalls == 3
\* Clock ticks per second: the time source has sub-second precision.
TicksPerSec == 2

\* The time at which the balancer functions are applied, in Unix seconds.
BalNow == 100

\* ------------------------------------------------------- program constants

\* _heartbeatRefreshRate = 2 * time.Second
_heartbeatRefreshRate == 2
\* const CoolDownTime = 60
CoolDownTime == 60
\* _ewmaAlpha = 0.1, as the fraction EwmaNum / EwmaDen
EwmaNum == 1
EwmaDen == 10

\* ---------------------------------------------------------------- universe

ExecutorNames == <<"exec-1", "exec-2", "exec-3">>
ShardNames == <<"s1", "s2", "s3">>

RECURSIVE Pow(_, _)
Pow(b, n) == IF n = 0 THEN 1 ELSE b * Pow(b, n - 1)

\* Fixed-point unit of a finite load: MaxCalls smoothing steps stay exact.
Scale == Pow(EwmaDen, MaxCalls)

\* Position of an id in lexicographic order (the names above are listed in it).
Rank(names, id) == CHOOSE i \in 1..Len(names) : names[i] = id
ExecLess(a, b) == Rank(ExecutorNames, a) < Rank(ExecutorNames, b)
ShardLess(a, b) == Rank(ShardNames, a) < Rank(ShardNames, b)

Range(s) == {s[i] : i \in 1..Len(s)}
EmptyMap == [x \in {} |-> 0]
\* m[k] of a Go map with numeric values: the zero value when k is absent.
Get(m, k) == IF k \in DOMAIN m THEN m[k] ELSE 0
\* m[k] of a Go map of slices: nil (the empty slice) when k is absent.
GetSeq(m, k) == IF k \in DOMAIN m THEN m[k] ELSE <<>>
Put(m, k, v) == [x \in DOMAIN m \cup {k} |-> IF x = k THEN v ELSE m[x]]

\* ------------------------------------------------------------------ floats

Fin(n) == [k |-> "fin", v |-> n]
NaN == [k |-> "nan", v |-> 0]
PosInf == [k |-> "inf", v |-> 1]
NegInf == [k |-> "inf", v |-> -1]

\* math.IsNaN(value) || math.IsInf(value, 0)
IsNonFinite(x) == x.k # "fin"

safeLoad(value) == IF IsNonFinite(value) THEN 0 ELSE value.v

\* stats: map[string]store.ShardStatistics, or the nil map.
NilStats == [nil |-> TRUE, m |-> EmptyMap]
Stats(m) == [nil |-> FALSE, m |-> m]

shardLoad(stats, shardID) ==
    IF stats.nil THEN 0
    ELSE IF shardID \notin DOMAIN stats.m THEN 0
    ELSE safeLoad(stats.m[shardID].SmoothedLoad)

\* ---------------------------------------------------------------- balancer

\* sort.Strings over a set of executor ids.
RECURSIVE SortedExecs(_)
SortedExecs(S) ==
    IF S = {} THEN <<>>
    ELSE LET m == CHOOSE x \in S : \A y \in S : ~ExecLess(y, x)
         IN <<m>> \o SortedExecs(S \ {m})

\* The loop with "<=" between the counts: on a full tie the later id wins.
RECURSIVE LeastLoadedScan_lastWins(_, _, _, _, _)
LeastLoadedScan_lastWins(ids, loads, counts, minID, minLoad) ==
    IF ids = <<>> THEN minID
    ELSE LET id == Head(ids)
             load == loads[id]
         IN IF load < minLoad
            THEN LeastLoadedScan_lastWins(Tail(ids), loads, counts, id, load)
            ELSE IF load = minLoad /\ Get(counts, id) <= Get(counts, minID)
            THEN LeastLoadedScan_lastWins(Tail(ids), loads, counts, id, minLoad)
            ELSE LeastLoadedScan_lastWins(Tail(ids), loads, counts, minID, minLoad)

\* The loop without the comparison of counts: on a load tie the first id stays.
RECURSIVE LeastLoadedScan_noCounts(_, _, _, _, _)
LeastLoadedScan_noCounts(ids, loads, counts, minID, minLoad) ==
    IF ids = <<>> THEN minID
    ELSE LET id == Head(ids)
             load == loads[id]
         IN IF load < minLoad
            THEN LeastLoadedScan_noCounts(Tail(ids), loads, counts, id, load)
            ELSE LeastLoadedScan_noCounts(Tail(ids), loads, counts, minID, minLoad)

\* The loop of findLeastLoadedExecutor over ids[1:], carrying minID and minLoad.
RECURSIVE LeastLoadedScan(_, _, _, _, _)
LeastLoadedScan(ids, loads, counts, minID, minLoad) ==
    IF ids = <<>> THEN minID
    ELSE LET id == Head(ids)
             load == loads[id]
         IN IF load < minLoad
            THEN LeastLoadedScan(Tail(ids), loads, counts, id, load)
            ELSE IF load = minLoad /\ Get(counts, id) < Get(counts, minID)
            THEN LeastLoadedScan(Tail(ids), loads, counts, id, minLoad)
            ELSE LeastLoadedScan(Tail(ids), loads, counts, minID, minLoad)

\* (string, error): err is TRUE for "empty loads array".
findLeastLoadedExecutor(loads, counts) ==
    IF DOMAIN loads = {} THEN [id |-> "", err |-> TRUE]
    ELSE LET ids == SortedExecs(DOMAIN loads)
         IN [id |-> LeastLoadedScan(Tail(ids), loads, counts, ids[1], loads[ids[1]]),
             err |-> FALSE]

\* The orders sort.Slice may leave the shards in: sort.Slice is not stable, so
\* shards of equal load come out in any order.
Perms(s) ==
    {p \in [1..Len(s) -> Range(s)] :
        \A x \in Range(s) :
            Cardinality({i \in 1..Len(s) : p[i] = x}) =
            Cardinality({i \in 1..Len(s) : s[i] = x})}
SortedByLoadDesc(shards, stats) ==
    {p \in Perms(shards) :
        \A i, j \in 1..Len(p) : i < j => shardLoad(stats, p[i]) >= shardLoad(stats, p[j])}

\* currentAssignments: map[string][]string, or the nil map.
NilAssignments == [nil |-> TRUE, m |-> EmptyMap]
Assignments(m) == [nil |-> FALSE, m |-> m]

\* The loop without "currentLoads[executorID] += shardLoad(stats, shardID)".
RECURSIVE AssignLoop_staleLoads(_, _, _, _, _)
AssignLoop_staleLoads(shards, stats, currentLoads, currentCounts, assignment) ==
    IF shards = <<>> THEN assignment
    ELSE LET shardID == Head(shards)
             least == findLeastLoadedExecutor(currentLoads, currentCounts)
             executorID == least.id
         IN IF least.err
            THEN AssignLoop_staleLoads(Tail(shards), stats, currentLoads, currentCounts,
                                       assignment)
            ELSE AssignLoop_staleLoads(Tail(shards), stats, currentLoads,
                    Put(currentCounts, executorID, Get(currentCounts, executorID) + 1),
                    Put(assignment, executorID,
                        Append(GetSeq(assignment, executorID), shardID)))

\* The placement loop of assignUnassignedShards over the sorted shards.
RECURSIVE AssignLoop(_, _, _, _, _)
AssignLoop(shards, stats, currentLoads, currentCounts, assignment) ==
    IF shards = <<>> THEN assignment
    ELSE LET shardID == Head(shards)
             least == findLeastLoadedExecutor(currentLoads, currentCounts)
             executorID == least.id
         IN IF least.err
            THEN AssignLoop(Tail(shards), stats, currentLoads, currentCounts, assignment)
            ELSE AssignLoop(Tail(shards), stats,
                    Put(currentLoads, executorID,
                        currentLoads[executorID] + shardLoad(stats, shardID)),
                    Put(currentCounts, executorID, Get(currentCounts, executorID) + 1),
                    Put(assignment, executorID,
                        Append(GetSeq(assignment, executorID), shardID)))

\* A variant that places the first shard only and drops the others.
assignUnassignedShards_firstOnly(sorted, loads, stats, currentAssignments) ==
    IF Len(sorted) = 0 \/ DOMAIN loads = {} THEN Assignments(EmptyMap)
    ELSE Assignments(AssignLoop(<<Head(sorted)>>, stats, loads, EmptyMap, EmptyMap))

\* A variant whose early return is "return nil".
assignUnassignedShards_nilOnEmpty(sorted, loads, stats, currentAssignments) ==
    IF Len(sorted) = 0 \/ DOMAIN loads = {} THEN NilAssignments
    ELSE Assignments(AssignLoop(sorted, stats, loads,
                        IF currentAssignments.nil THEN EmptyMap
                        ELSE [k \in DOMAIN loads |-> Len(GetSeq(currentAssignments.m, k))],
                        EmptyMap))

\* assignUnassignedShards with `sorted` the order sort.Slice produced. A nil
\* slice and a nil loads map have length 0 and are only read: they are the
\* empty sequence and EmptyMap. The result is a map that may be nil.
assignUnassignedShards(sorted, loads, stats, currentAssignments) ==
    IF Len(sorted) = 0 \/ DOMAIN loads = {} THEN Assignments(EmptyMap)
    ELSE LET currentCounts ==
                 IF currentAssignments.nil THEN EmptyMap
                 ELSE [k \in DOMAIN loads |-> Len(GetSeq(currentAssignments.m, k))]
         IN Assignments(AssignLoop(sorted, stats, loads, currentCounts, EmptyMap))

\* The objects the locals of assignUnassignedShards that are written to refer
\* to, in a variant that sorts and adds up in the caller's slice and map.
assignUnassignedShardsLocals_inPlace ==
    [shards |-> "unassignedShards", currentLoads |-> "loads"]

\* The objects the locals of assignUnassignedShards that are written to refer
\* to: shards is made and filled by copy, currentLoads is made and filled by
\* the loop over loads.
assignUnassignedShardsLocals == [shards |-> "make", currentLoads |-> "make"]

\* The arguments of assignUnassignedShards as the call leaves them: sort.Slice
\* writes to shards and the placement loop adds to currentLoads;
\* currentAssignments is only read.
assignUnassignedShardsArguments(unassignedShards, sorted, loads, stats, currentAssignments) ==
    LET assignment == assignUnassignedShards(sorted, loads, stats, currentAssignments).m
        RECURSIVE Sum(_)
        Sum(shardIDs) ==
            IF shardIDs = <<>> THEN 0
            ELSE shardLoad(stats, Head(shardIDs)) + Sum(Tail(shardIDs))
        currentLoads == [k \in DOMAIN loads |-> loads[k] + Sum(GetSeq(assignment, k))]
        returnsEarly == Len(unassignedShards) = 0 \/ DOMAIN loads = {}
    IN [unassignedShards |->
            IF ~returnsEarly /\ assignUnassignedShardsLocals.shards = "unassignedShards"
            THEN sorted ELSE unassignedShards,
        loads |->
            IF ~returnsEarly /\ assignUnassignedShardsLocals.currentLoads = "loads"
            THEN currentLoads ELSE loads,
        currentAssignments |-> currentAssignments]

\* A variant that passes over a shard without a statistics entry.
RECURSIVE ElligbleScan_skipsMissing(_, _, _, _)
ElligbleScan_skipsMissing(shardIDs, stats, now, acc) ==
    IF shardIDs = <<>> THEN [shards |-> acc, err |-> FALSE]
    ELSE LET shardID == Head(shardIDs)
         IN IF stats.nil \/ shardID \notin DOMAIN stats.m
            THEN ElligbleScan_skipsMissing(Tail(shardIDs), stats, now, acc)
            ELSE LET delta == now - stats.m[shardID].LastMoveTime
                 IN ElligbleScan_skipsMissing(Tail(shardIDs), stats, now,
                        IF delta > CoolDownTime THEN Append(acc, shardID) ELSE acc)

\* FindElligbleShards with Configuration{Cooldown: true}: [shards, err].
RECURSIVE ElligbleScan(_, _, _, _)
ElligbleScan(shardIDs, stats, now, acc) ==
    IF shardIDs = <<>> THEN [shards |-> acc, err |-> FALSE]
    ELSE LET shardID == Head(shardIDs)
         IN IF stats.nil \/ shardID \notin DOMAIN stats.m
            THEN [shards |-> <<>>, err |-> TRUE]
            ELSE LET delta == now - stats.m[shardID].LastMoveTime
                 IN ElligbleScan(Tail(shardIDs), stats, now,
                        IF delta > CoolDownTime THEN Append(acc, shardID) ELSE acc)

\* A variant whose cooldown ends one second early: delta >= CoolDownTime.
FindElligbleShards_inclusive(shardIDs, stats, now) ==
    IF stats.nil \/ \E i \in 1..Len(shardIDs) : shardIDs[i] \notin DOMAIN stats.m
    THEN [shards |-> <<>>, err |-> TRUE]
    ELSE [shards |-> SelectSeq(shardIDs,
                        LAMBDA s : now - stats.m[s].LastMoveTime >= CoolDownTime),
          err |-> FALSE]

FindElligbleShards(shardIDs, stats, now) == ElligbleScan(shardIDs, stats, now, <<>>)

\* A variant that leaves the shard with its donor.
removeShard_keeps(shards, target) == shards

removeShard(shards, target) ==
    IF \E i \in 1..Len(shards) : shards[i] = target
    THEN LET i == CHOOSE k \in 1..Len(shards) :
                      shards[k] = target /\ \A l \in 1..(k - 1) : shards[l] # target
         IN SubSeq(shards, 1, i - 1) \o SubSeq(shards, i + 1, Len(shards))
    ELSE shards

\* A less function that puts the lightest candidate first.
DonorLess_lightestFirst(a, b) ==
    IF a.weight = b.weight
    THEN IF a.executor = b.executor
         THEN ShardLess(a.shardID, b.shardID)
         ELSE ExecLess(a.executor, b.executor)
    ELSE a.weight < b.weight

\* The less function of the donors' sort.Slice: a total order on candidates.
DonorLess(a, b) ==
    IF a.weight = b.weight
    THEN IF a.executor = b.executor
         THEN ShardLess(a.shardID, b.shardID)
         ELSE ExecLess(a.executor, b.executor)
    ELSE a.weight > b.weight

RECURSIVE SortDonors(_)
SortDonors(S) ==
    IF S = {} THEN <<>>
    ELSE LET m == CHOOSE x \in S : \A y \in S : ~DonorLess(y, x)
         IN <<m>> \o SortDonors(S \ {m})

\* The candidates one non-empty executor contributes.
DonorsOf(executorID, shards, stats) ==
    {[executor |-> executorID, shardID |-> shards[i], weight |-> shardLoad(stats, shards[i])] :
        i \in 1..Len(shards)}

\* The inner loop: advance donorIdx to the first candidate of another executor.
RECURSIVE NextCandidate(_, _, _)
NextCandidate(donors, donorIdx, target) ==
    LET candidate == donors[donorIdx]
    IN IF candidate.executor # target \/ donorIdx + 1 > Len(donors)
       THEN [candidate |-> candidate, donorIdx |-> donorIdx + 1]
       ELSE NextCandidate(donors, donorIdx + 1, target)

\* The loop over the empty executors; st carries steals, updatedLoads,
\* assignments, used and donorIdx (1-based: the next donor to read).
RECURSIVE StealLoop(_, _, _)
StealLoop(targets, donors, st) ==
    IF targets = <<>> \/ st.donorIdx > Len(donors) THEN st
    ELSE LET target == Head(targets)
             nc == NextCandidate(donors, st.donorIdx, target)
             candidate == nc.candidate
         IN IF candidate.executor = target \/ candidate.shardID \in st.used
            THEN StealLoop(Tail(targets), donors, [st EXCEPT !.donorIdx = nc.donorIdx])
            ELSE StealLoop(Tail(targets), donors,
                    [donorIdx |-> nc.donorIdx,
                     used |-> st.used \cup {candidate.shardID},
                     steals |-> Put(st.steals, target,
                                    Append(GetSeq(st.steals, target), candidate.shardID)),
                     assignments |-> Put(st.assignments, candidate.executor,
                                    removeShard(GetSeq(st.assignments, candidate.executor),
                                                candidate.shardID)),
                     updatedLoads |-> Put(Put(st.updatedLoads, candidate.executor,
                                        Get(st.updatedLoads, candidate.executor) - candidate.weight),
                                        target,
                                        Get(Put(st.updatedLoads, candidate.executor,
                                            Get(st.updatedLoads, candidate.executor) - candidate.weight),
                                            target) + candidate.weight)])

\* The object updatedLoads of redistributeToEmptyExecutors refers to: a map
\* made in the call and filled by the loop over loads.
redistributeLocals == [updatedLoads |-> "make"]

\* redistributeToEmptyExecutors at time now (Unix seconds). The result holds
\* the two return values (steals is nil on the early returns) and the
\* assignments map as the call leaves it (the caller's map is modified in
\* place) and the loads map as the call leaves it (the loop writes to
\* updatedLoads).
redistributeToEmptyExecutors(loads, stats, assignments, now) ==
    LET none == [nilSteals |-> TRUE, steals |-> EmptyMap, updatedLoads |-> loads,
                 assignments |-> assignments, loads |-> loads]
        emptyExecutors == {e \in DOMAIN assignments : Len(assignments[e]) = 0}
        nonEmpty == DOMAIN assignments \ emptyExecutors
        failed == \E e \in nonEmpty : FindElligbleShards(assignments[e], stats, now).err
        donorSet == UNION {DonorsOf(e, FindElligbleShards(assignments[e], stats, now).shards, stats) :
                            e \in nonEmpty}
    IN IF DOMAIN assignments = {} THEN none
       ELSE IF emptyExecutors = {} THEN none
       ELSE IF failed THEN none
       ELSE IF donorSet = {} THEN none
       ELSE LET st == StealLoop(SortedExecs(emptyExecutors), SortDonors(donorSet),
                         [donorIdx |-> 1, used |-> {}, steals |-> EmptyMap,
                          assignments |-> assignments, updatedLoads |-> loads])
            IN [nilSteals |-> FALSE, steals |-> st.steals,
                updatedLoads |-> st.updatedLoads, assignments |-> st.assignments,
                loads |-> IF redistributeLocals.updatedLoads = "loads"
                          THEN st.updatedLoads ELSE loads]

\* A variant that gives an executor without shards no entry.
computeExecutorLoads_nonEmptyOnly(assignments, stats) ==
    LET RECURSIVE Sum(_)
        Sum(shardIDs) ==
            IF shardIDs = <<>> THEN 0
            ELSE shardLoad(stats, Head(shardIDs)) + Sum(Tail(shardIDs))
    IN [executorID \in {e \in DOMAIN assignments : assignments[e] # <<>>} |->
           Sum(assignments[executorID])]

\* computeExecutorLoads: an entry for every key of assignments.
computeExecutorLoads(assignments, stats) ==
    LET RECURSIVE Sum(_)
        Sum(shardIDs) ==
            IF shardIDs = <<>> THEN 0
            ELSE shardLoad(stats, Head(shardIDs)) + Sum(Tail(shardIDs))
    IN [executorID \in DOMAIN assignments |-> Sum(assignments[executorID])]

\* ------------------------------------------------------------------- store

Executors == {ExecutorNames[i] : i \in 1..2}
Shards == {ShardNames[i] : i \in 1..2}
Workers == {"w1", "w2"}
ExecutorStatuses == {"ACTIVE", "DRAINING"}

\* time.Time.Unix(): whole seconds of a time in ticks.
Unix(t) == t \div TicksPerSec

\* A Go map value that may be the nil map.
NilMap == [nil |-> TRUE, m |-> EmptyMap]
Map(m) == [nil |-> FALSE, m |-> m]

\* *store.HeartbeatState; present = FALSE is the nil pointer.
NoHeartbeat ==
    [present |-> FALSE, LastHeartbeat |-> 0, Status |-> "", ReportedShards |-> NilMap]
\* *store.AssignedState; present = FALSE is the nil pointer.
NoAssignedState == [present |-> FALSE, AssignedShards |-> NilMap]

\* *types.ShardStatusReport; nilptr = TRUE is a nil entry of the reports map.
Report(load) == [nilptr |-> FALSE, Status |-> "READY", ShardLoad |-> load]
NilReport == [nilptr |-> TRUE, Status |-> "", ShardLoad |-> Fin(0)]

\* The reports maps a request may carry, with entries drawn from values.
ReportMaps(values) ==
    {NilMap} \cup {Map(m) : m \in UNION {[S -> values] : S \in SUBSET Shards}}
\* The requests of a fleet of executors.
Requests(fleet, statuses, reports) ==
    [ExecutorID : fleet, Status : statuses, ShardStatusReports : reports]

\* ----------------------------------------------------------------- handler

\* _ewmaAlpha*report + (1-_ewmaAlpha)*previous in float64 arithmetic: NaN
\* and the infinities propagate as IEEE 754 has them.
Ewma(report, previous) ==
    IF report.k = "nan" \/ previous.k = "nan" THEN NaN
    ELSE IF report.k = "inf" /\ previous.k = "inf"
    THEN (IF report.v = previous.v THEN report ELSE NaN)
    ELSE IF report.k = "inf" THEN report
    ELSE IF previous.k = "inf" THEN previous
    ELSE Fin((EwmaNum * report.v + (EwmaDen - EwmaNum) * previous.v) \div EwmaDen)

\* a + b in float64 arithmetic.
FAdd(a, b) ==
    IF a.k = "nan" \/ b.k = "nan" THEN NaN
    ELSE IF a.k = "inf" /\ b.k = "inf" THEN (IF a.v = b.v THEN a ELSE NaN)
    ELSE IF a.k = "inf" THEN a
    ELSE IF b.k = "inf" THEN b
    ELSE Fin(a.v + b.v)

\* The loop of smoothShardLoads over the shards still to visit: result and
\* aggregated as the loop leaves them. The order of a range over a map is
\* not specified; CHOOSE stands for it, and FAdd gives the same sum in any
\* order (rounding is not modelled).
RECURSIVE SmoothLoop(_, _, _, _, _)
SmoothLoop(previous, current, toVisit, result, aggregated) ==
    IF toVisit = {} THEN [result |-> result, aggregated |-> aggregated]
    ELSE LET shardID == CHOOSE s \in toVisit : TRUE
             report == current.m[shardID]
             smoothedLoad ==
                 IF shardID \in DOMAIN previous.m /\ ~previous.m[shardID].nilptr
                 THEN Ewma(report.ShardLoad, previous.m[shardID].ShardLoad)
                 ELSE report.ShardLoad
         IN IF report.nilptr
            THEN SmoothLoop(previous, current, toVisit \ {shardID}, result, aggregated)
            ELSE SmoothLoop(previous, current, toVisit \ {shardID},
                            Put(result, shardID,
                                [nilptr |-> FALSE, Status |-> report.Status,
                                 ShardLoad |-> smoothedLoad]),
                            FAdd(aggregated, smoothedLoad))

\* A variant that adds up the loads as reported, not as smoothed.
smoothShardLoads_rawAggregate(previous, current) ==
    LET loop == SmoothLoop(previous, current, DOMAIN current.m, EmptyMap, Fin(0))
        raw == SmoothLoop(NilMap, current, DOMAIN current.m, EmptyMap, Fin(0))
    IN IF DOMAIN current.m = {} \/ DOMAIN loop.result = {}
       THEN [reports |-> NilMap, aggregated |-> Fin(0)]
       ELSE [reports |-> Map(loop.result), aggregated |-> raw.aggregated]

\* smoothShardLoads of the draft that smooths from the previous heartbeat:
\* the smoothed reports (the nil map when there is none) and their sum.
smoothShardLoads(previous, current) ==
    IF DOMAIN current.m = {} THEN [reports |-> NilMap, aggregated |-> Fin(0)]
    ELSE LET loop == SmoothLoop(previous, current, DOMAIN current.m, EmptyMap, Fin(0))
         IN IF DOMAIN loop.result = {}
            THEN [reports |-> NilMap, aggregated |-> Fin(0)]
            ELSE [reports |-> Map(loop.result), aggregated |-> loop.aggregated]

\* The store.HeartbeatState that draft passes to RecordHeartbeat.
newHeartbeatState(previousHeartbeat, request, now) ==
    LET previousReports ==
            IF previousHeartbeat.present THEN previousHeartbeat.ReportedShards ELSE NilMap
        smoothed == smoothShardLoads(previousReports, request.ShardStatusReports)
    IN [present |-> TRUE, LastHeartbeat |-> Unix(now), Status |-> request.Status,
        ReportedShards |-> smoothed.reports, AggregatedLoad |-> smoothed.aggregated]

\* A variant that takes every read error for "executor not found".
getHeartbeatFatal_never(err) == FALSE

\* err != nil && !errors.Is(err, store.ErrExecutorNotFound)
getHeartbeatFatal(err) == err \notin {"", "ErrExecutorNotFound"}

\* Variants of the rate gate: one second shorter, closed at the refresh rate,
\* and taken on a status change instead of an unchanged status.
RateGated_short(previousHeartbeat, status, now) ==
    /\ previousHeartbeat.present
    /\ status = previousHeartbeat.Status
    /\ now - previousHeartbeat.LastHeartbeat * TicksPerSec
           < (_heartbeatRefreshRate - 1) * TicksPerSec
RateGated_inclusive(previousHeartbeat, status, now) ==
    /\ previousHeartbeat.present
    /\ status = previousHeartbeat.Status
    /\ now - previousHeartbeat.LastHeartbeat * TicksPerSec
           <= _heartbeatRefreshRate * TicksPerSec
RateGated_statusChanged(previousHeartbeat, status, now) ==
    /\ previousHeartbeat.present
    /\ status # previousHeartbeat.Status
    /\ now - previousHeartbeat.LastHeartbeat * TicksPerSec
           < _heartbeatRefreshRate * TicksPerSec

\* The rate gate of Heartbeat: now in ticks, LastHeartbeat in Unix seconds.
RateGated(previousHeartbeat, status, now) ==
    /\ previousHeartbeat.present
    /\ status = previousHeartbeat.Status
    /\ now - previousHeartbeat.LastHeartbeat * TicksPerSec
           < _heartbeatRefreshRate * TicksPerSec

\* The ShardAssignments of the response (a map, possibly nil).
_convertResponse(shards) ==
    IF ~shards.present THEN NilMap ELSE shards.AssignedShards

\* A variant that stores no reports with the heartbeat.
newHeartbeat_noReports(request, now) ==
    [present |-> TRUE, LastHeartbeat |-> Unix(now), Status |-> request.Status,
     ReportedShards |-> NilMap]

\* The store.HeartbeatState Heartbeat passes to RecordHeartbeat.
newHeartbeat(request, now) ==
    [present |-> TRUE, LastHeartbeat |-> Unix(now), Status |-> request.Status,
     ReportedShards |-> request.ShardStatusReports]

\* A variant without the assignment filter: every reported shard of the state.
UpdatedShards_unfiltered(state, shardReports, assignedShards) ==
    {shardID \in DOMAIN state : shardID \in DOMAIN shardReports.m}

\* The shards updateShardload writes: those of state.ShardMetrics that are
\* reported and assigned to the executor.
UpdatedShards(state, shardReports, assignedShards) ==
    LET assignedShardsSet ==
            IF assignedShards.present THEN DOMAIN assignedShards.AssignedShards.m ELSE {}
    IN {shardID \in DOMAIN state :
            shardID \in DOMAIN shardReports.m /\ shardID \in assignedShardsSet}

\* report.ShardLoad dereferences a nil *ShardStatusReport: a run-time panic.
updateShardloadPanics(state, shardReports, assignedShards) ==
    \E shardID \in UpdatedShards(state, shardReports, assignedShards) :
        shardReports.m[shardID].nilptr

\* A variant that smooths an assigned shard without a report towards zero.
newShardMetrics_zeroForMissing(state, shardReports, assignedShards, unixNow) ==
    [shardID \in {s \in DOMAIN state :
                     assignedShards.present /\ s \in DOMAIN assignedShards.AssignedShards.m} |->
        [state[shardID] EXCEPT
            !.SmoothedLoad =
                Ewma(IF shardID \in DOMAIN shardReports.m
                     THEN shardReports.m[shardID].ShardLoad ELSE Fin(0),
                     state[shardID].SmoothedLoad),
            !.LastUpdateTime = unixNow]]

\* newShardMetrics of updateShardload, with unixNow = timeSource.Now().Unix().
newShardMetrics(state, shardReports, assignedShards, unixNow) ==
    [shardID \in UpdatedShards(state, shardReports, assignedShards) |->
        [state[shardID] EXCEPT
            !.SmoothedLoad = Ewma(shardReports.m[shardID].ShardLoad, state[shardID].SmoothedLoad),
            !.LastUpdateTime = unixNow]]

\* What updateShardload returns for the error UpdateShardMetrics gave it.
updateShardloadError(err) == err

\* ------------------------------------------------------------------- state

VARIABLES
    clock,           \* the time source, in ticks
    heartbeats,      \* store: executor -> HeartbeatState (or nil)
    assignedStates,  \* store: executor -> AssignedState (or nil)
    shardMetrics,    \* store: NamespaceState.ShardMetrics
    calls,           \* worker -> the Heartbeat call it runs or ran last
    nCalls,          \* Heartbeat calls started so far
    env,             \* the deployment: RPC workers, executor fleet, the statuses
                     \* and the reports maps its executors send
    bal              \* the balancer functions' inputs and results

vars == <<clock, heartbeats, assignedStates, shardMetrics, calls, nCalls, env, bal>>

NoRequest == [ExecutorID |-> "", Status |-> "", ShardStatusReports |-> NilMap]
NoResult == [kind |-> "none", wrap |-> "", cause |-> "", ShardAssignments |-> NilMap]
\* What a call knows of the call its worker ran just before it.
NoBefore == [valid |-> FALSE, writes |-> 0, recorded |-> FALSE]
\* A Heartbeat call: its program counter, the locals still to be read
\* (a local is reset once the code no longer reads it), the store calls it
\* made and what it returned. id numbers the calls in the order they
\* started. quiet holds of a call as long as the time source has not
\* advanced since the call read it and no other call has recorded a
\* heartbeat since. recordedAt holds the time, in ticks, at which the call's
\* RecordHeartbeat took effect in the store; now is the time the call read,
\* and previousNow the one read by the worker's preceding call when that call
\* recorded a heartbeat for the same executor and status.
IdleCall ==
    [pc |-> "idle", id |-> 0, request |-> NoRequest, assignedShards |-> NoAssignedState,
     gated |-> FALSE, newHeartbeat |-> NoHeartbeat, newShardMetrics |-> EmptyMap,
     ops |-> <<>>, result |-> NoResult, before |-> NoBefore, quiet |-> FALSE,
     recordedAt |-> {}, now |-> 0, previousNow |-> {}]
\* The balancer functions' record while they are not being applied.
NoBal ==
    [pc |-> "off", now |-> 0, stats |-> NilStats, assignments |-> EmptyMap,
     unassigned |-> {}, shards |-> <<>>, loads |-> EmptyMap, plan |-> EmptyMap,
     merged |-> EmptyMap, nilSteals |-> TRUE, steals |-> EmptyMap,
     updatedLoads |-> EmptyMap, left |-> EmptyMap,
     counts |-> EmptyMap, least |-> [id |-> "", err |-> FALSE],
     nilPlan |-> TRUE, current |-> NilAssignments,
     arguments |-> [unassignedShards |-> <<>>, loads |-> EmptyMap,
                    currentAssignments |-> NilAssignments],
     callerLoads |-> EmptyMap, loadsAfter |-> EmptyMap]

\* A store call a Heartbeat made, with the error it returned ("" for none).
Op(name, err) == [op |-> name, err |-> err]
StoreDown == "storage is down"
WriteOps == {"RecordHeartbeat", "UpdateShardMetrics"}
TimesCalled(call, name) == Cardinality({i \in 1..Len(call.ops) : call.ops[i].op = name})
Called(call, name) == TimesCalled(call, name) > 0
Succeeded(call, name) ==
    \E i \in 1..Len(call.ops) : call.ops[i].op = name /\ call.ops[i].err = ""
\* The store writes of a call that took effect.
Writes(call) ==
    Cardinality({i \in 1..Len(call.ops) : call.ops[i].op \in WriteOps /\ call.ops[i].err = ""})

\* return _convertResponse(assignedShards), nil
Success(call) ==
    [kind |-> "ok", wrap |-> "", cause |-> "",
     ShardAssignments |-> _convertResponse(call.assignedShards)]
\* return nil, fmt.Errorf(wrap + ": %w", err)
Failure(wrap, err) ==
    [kind |-> "error", wrap |-> wrap, cause |-> err, ShardAssignments |-> NilMap]
Panic == [kind |-> "panic", wrap |-> "", cause |-> "nil pointer dereference",
          ShardAssignments |-> NilMap]

\* What Heartbeat returns when updateShardload returned err; "" is nil.
afterUpdateShardload(call, err) ==
    IF err # "" THEN Failure("update shardload", err) ELSE Success(call)

\* Worker w's call returns.
Return(w, call, result) ==
    calls' = [calls EXCEPT ![w] =
                 [call EXCEPT !.pc = "done", !.result = result,
                              !.newHeartbeat = NoHeartbeat]]

\* The order of the two store steps of Heartbeat in the draft that smooths
\* the metrics first and records the heartbeat last.
HeartbeatSteps_metricsFirst == <<"state", "record">>

\* The order of the two store steps of Heartbeat after the rate gate:
\* RecordHeartbeat, then updateShardload (GetState and UpdateShardMetrics).
HeartbeatSteps == <<"record", "state">>
\* Where the call goes when a step ended without an error.
NextStep(step) == IF step = HeartbeatSteps[1] THEN HeartbeatSteps[2] ELSE "return"

\* Worker w's call finished a step without an error: the next step, or the
\* successful return. cs is the calls as the step leaves them.
Continue(w, call, step, cs) ==
    calls' = [cs EXCEPT ![w] =
                 IF NextStep(step) = "return"
                 THEN [call EXCEPT !.pc = "done", !.result = Success(call),
                                   !.newHeartbeat = NoHeartbeat]
                 ELSE [call EXCEPT !.pc = NextStep(step)]]

\* The time source advanced, or a call recorded a heartbeat: the calls
\* that saw the time and the heartbeats before are no longer quiet.
Disturb(cs) == [w \in DOMAIN cs |-> [cs[w] EXCEPT !.quiet = FALSE]]

HandlerInit(deployment) ==
    /\ clock = TicksPerSec
    /\ heartbeats = [e \in Executors |-> NoHeartbeat]
    /\ assignedStates = [e \in Executors |-> NoAssignedState]
    /\ shardMetrics = EmptyMap
    /\ calls = [w \in Workers |-> IdleCall]
    /\ nCalls = 0
    /\ env = deployment

\* Heartbeat up to the rate gate: GetHeartbeat, timeSource.Now(), the gate.
\* err is what the store returned besides ErrExecutorNotFound ("" for none).
HeartbeatGet(w, request, err) ==
    /\ w \in env.workers
    /\ calls[w].pc \in {"idle", "done"}
    /\ nCalls < MaxCalls
    /\ nCalls' = nCalls + 1
    /\ LET found == heartbeats[request.ExecutorID].present
           readErr == IF err # "" THEN err
                      ELSE IF found THEN "" ELSE "ErrExecutorNotFound"
           previousHeartbeat ==
               IF readErr = "" THEN heartbeats[request.ExecutorID] ELSE NoHeartbeat
           now == clock
           call == [IdleCall EXCEPT
                      !.id = nCalls + 1,
                      !.quiet = TRUE,
                      !.now = now,
                      !.previousNow =
                          IF /\ calls[w].recordedAt # {}
                             /\ calls[w].request.ExecutorID = request.ExecutorID
                             /\ calls[w].request.Status = request.Status
                          THEN {calls[w].now} ELSE {},
                      !.request = request,
                      !.assignedShards =
                          IF readErr = "" THEN assignedStates[request.ExecutorID]
                          ELSE NoAssignedState,
                      !.ops = <<Op("GetHeartbeat", readErr)>>,
                      !.before =
                          IF calls[w].pc = "done" /\ calls[w].quiet
                             /\ calls[w].request = request
                          THEN [valid |-> TRUE, writes |-> Writes(calls[w]),
                                recorded |-> calls[w].gated
                                             \/ Succeeded(calls[w], "RecordHeartbeat")]
                          ELSE NoBefore]
       IN IF getHeartbeatFatal(readErr)
          THEN Return(w, call, Failure("get heartbeat", readErr))
          ELSE IF RateGated(previousHeartbeat, request.Status, now)
          THEN Return(w, [call EXCEPT !.gated = TRUE], Success(call))
          ELSE calls' = [calls EXCEPT ![w] =
                            [call EXCEPT !.pc = HeartbeatSteps[1],
                                         !.newHeartbeat = newHeartbeat(request, now)]]
    /\ UNCHANGED <<clock, heartbeats, assignedStates, shardMetrics, env, bal>>

\* A variant that goes on to the next step when RecordHeartbeat failed.
HeartbeatRecord_ignoresError(w, err) ==
    /\ calls[w].pc = "record"
    /\ LET call == [calls[w] EXCEPT !.ops = Append(@, Op("RecordHeartbeat", err))]
       IN /\ heartbeats' = IF err # "" THEN heartbeats
                           ELSE [heartbeats EXCEPT ![call.request.ExecutorID] =
                                    call.newHeartbeat]
          /\ Continue(w, [call EXCEPT !.newHeartbeat = NoHeartbeat,
                                       !.recordedAt = IF err # "" THEN {} ELSE {clock}],
                      "record", Disturb(calls))
    /\ UNCHANGED <<clock, assignedStates, shardMetrics, nCalls, env, bal>>

\* storage.RecordHeartbeat; err is the error the store returns ("" for none).
HeartbeatRecord(w, err) ==
    /\ calls[w].pc = "record"
    /\ LET call == [calls[w] EXCEPT !.ops = Append(@, Op("RecordHeartbeat", err))]
       IN IF err # ""
          THEN /\ Return(w, call, Failure("record heartbeat", err))
               /\ UNCHANGED heartbeats
          ELSE /\ heartbeats' = [heartbeats EXCEPT ![call.request.ExecutorID] =
                                    call.newHeartbeat]
               /\ Continue(w, [call EXCEPT !.newHeartbeat = NoHeartbeat,
                                            !.recordedAt = {clock}],
                           "record", Disturb(calls))
    /\ UNCHANGED <<clock, assignedStates, shardMetrics, nCalls, env, bal>>

\* A variant without the "len(newShardMetrics) == 0" return: it always
\* goes on to UpdateShardMetrics.
HeartbeatGetState_alwaysWrites(w, err) ==
    /\ calls[w].pc = "state"
    /\ LET call0 == [calls[w] EXCEPT !.ops = Append(@, Op("GetState", err))]
           reports == call0.request.ShardStatusReports
       IN IF err # ""
          THEN Return(w, call0, afterUpdateShardload(call0, err))
          ELSE IF updateShardloadPanics(shardMetrics, reports, call0.assignedShards)
          THEN Return(w, call0, Panic)
          ELSE calls' = [calls EXCEPT ![w] =
                            [call0 EXCEPT
                               !.pc = "update",
                               !.newShardMetrics =
                                   newShardMetrics(shardMetrics, reports,
                                                   call0.assignedShards, Unix(clock))]]
    /\ UNCHANGED <<clock, heartbeats, assignedStates, shardMetrics, nCalls, env, bal>>

\* updateShardload up to the write: GetState and the new metrics.
HeartbeatGetState(w, err) ==
    /\ calls[w].pc = "state"
    /\ LET call0 == [calls[w] EXCEPT !.ops = Append(@, Op("GetState", err))]
           reports == call0.request.ShardStatusReports
       IN IF err # ""
          THEN Return(w, call0, afterUpdateShardload(call0, err))
          ELSE IF updateShardloadPanics(shardMetrics, reports, call0.assignedShards)
          THEN Return(w, call0, Panic)
          ELSE LET call == [call0 EXCEPT
                              !.newShardMetrics =
                                  newShardMetrics(shardMetrics, reports,
                                                  call0.assignedShards, Unix(clock))]
               IN IF DOMAIN call.newShardMetrics = {}
                  THEN Continue(w, call, "state", calls)
                  ELSE calls' = [calls EXCEPT ![w] = [call EXCEPT !.pc = "update"]]
    /\ UNCHANGED <<clock, heartbeats, assignedStates, shardMetrics, nCalls, env, bal>>

\* storage.UpdateShardMetrics: on success the entries passed replace the
\* stored ones; err may be ErrVersionConflict or another store error.
HeartbeatUpdate(w, err) ==
    /\ calls[w].pc = "update"
    /\ LET call == [calls[w] EXCEPT !.ops = Append(@, Op("UpdateShardMetrics", err))]
       IN /\ shardMetrics' =
                 IF err # "" THEN shardMetrics
                 ELSE [shardID \in DOMAIN shardMetrics \cup DOMAIN call.newShardMetrics |->
                          IF shardID \in DOMAIN call.newShardMetrics
                          THEN call.newShardMetrics[shardID]
                          ELSE shardMetrics[shardID]]
          /\ IF updateShardloadError(err) # ""
             THEN Return(w, call, afterUpdateShardload(call, updateShardloadError(err)))
             ELSE Continue(w, call, "state", calls)
    /\ UNCHANGED <<clock, heartbeats, assignedStates, nCalls, env, bal>>

\* The time source advances by one tick.
Tick ==
    /\ clock < MaxTime
    /\ clock' = clock + 1
    /\ calls' = Disturb(calls)
    /\ UNCHANGED <<heartbeats, assignedStates, shardMetrics, nCalls, env, bal>>

\* ------------------------------------------------- namespace processor tick

RECURSIVE SortedShards(_)
SortedShards(S) ==
    IF S = {} THEN <<>>
    ELSE LET m == CHOOSE x \in S : \A y \in S : ~ShardLess(y, x)
         IN <<m>> \o SortedShards(S \ {m})

\* The shards the store holds as assigned to executor e.
Owned(e) ==
    IF assignedStates[e].present THEN DOMAIN assignedStates[e].AssignedShards.m ELSE {}
ActiveExecutors ==
    {e \in Executors : heartbeats[e].present /\ heartbeats[e].Status = "ACTIVE"}
Unassigned == {s \in Shards : \A e \in ActiveExecutors : s \notin Owned(e)}

\* One tick of the per-namespace loop: snapshot, assignUnassignedShards,
\* redistributeToEmptyExecutors once, persist. sorted is the order sort.Slice
\* left the unassigned shards in; create tells whether the persist step adds
\* the ShardMetrics entry of a shard assigned for the first time.
BalancerTick(sorted, create) ==
    /\ ActiveExecutors # {}
    /\ Unassigned # {} \/ \E e \in ActiveExecutors : Owned(e) = {}
    /\ LET current == [e \in ActiveExecutors |-> SortedShards(Owned(e))]
           stats == Stats(shardMetrics)
       IN /\ sorted \in SortedByLoadDesc(SortedShards(Unassigned), stats)
          /\ \E plan \in {assignUnassignedShards(sorted, computeExecutorLoads(current, stats),
                                                 stats, Assignments(current))} :
             \E merged \in {[e \in ActiveExecutors |-> current[e] \o GetSeq(plan.m, e)]} :
             \E red \in {redistributeToEmptyExecutors(computeExecutorLoads(merged, stats),
                                                      stats, merged, Unix(clock))} :
             \E final \in {[e \in ActiveExecutors |->
                              GetSeq(red.assignments, e) \o GetSeq(red.steals, e)]} :
                LET placed == UNION {Range(final[e]) : e \in ActiveExecutors}
                    moved == {s \in placed : \E e \in ActiveExecutors :
                                                s \in Range(final[e]) /\ s \notin Owned(e)}
                    fresh == {s \in moved : \A e \in Executors : s \notin Owned(e)}
                    written == {s \in moved :
                                   s \in DOMAIN shardMetrics \/ s \notin fresh \/ create}
                IN /\ moved # {}
                   /\ assignedStates' =
                          [e \in Executors |->
                              IF e \in ActiveExecutors
                              THEN [present |-> TRUE,
                                    AssignedShards |-> Map([s \in Range(final[e]) |-> "READY"])]
                              ELSE IF assignedStates[e].present
                              THEN [present |-> TRUE,
                                    AssignedShards |->
                                        Map([s \in Owned(e) \ placed |-> "READY"])]
                              ELSE assignedStates[e]]
                   /\ shardMetrics' =
                          [s \in DOMAIN shardMetrics \cup written |->
                              IF s \in written
                              THEN IF s \in DOMAIN shardMetrics
                                   THEN [shardMetrics[s] EXCEPT !.LastMoveTime = Unix(clock)]
                                   ELSE [SmoothedLoad |-> Fin(0), LastUpdateTime |-> 0,
                                         LastMoveTime |-> Unix(clock)]
                              ELSE shardMetrics[s]]
    /\ UNCHANGED <<clock, heartbeats, calls, nCalls, env, bal>>

\* --------------------------------------------------------- specifications

\* The loads a float64 report may carry besides a finite, non-negative one,
\* and a reports map with a nil *ShardStatusReport.
HazardReports ==
    {Map(("s1" :> Report(NaN)) @@ ("s2" :> Report(NegInf))),
     Map(("s1" :> Report(PosInf)) @@ ("s2" :> Report(Fin(-Scale)))),
     Map("s1" :> NilReport)}

\* One executor that changes status and reports any of the shards, two
\* executors that stay active and report every shard, or one executor that
\* changes status and reports non-finite and negative loads or a nil entry.
Deployments ==
    {[workers |-> {"w1"}, fleet |-> {"exec-1"}, statuses |-> ExecutorStatuses,
      reports |-> ReportMaps({Report(Fin(2 * Scale))})],
     [workers |-> {"w1"}, fleet |-> Executors, statuses |-> {"ACTIVE"},
      reports |-> {Map([s \in Shards |-> Report(Fin(2 * Scale))])}],
     [workers |-> {"w1"}, fleet |-> {"exec-1"}, statuses |-> ExecutorStatuses,
      reports |-> HazardReports]}

Init ==
    /\ \E deployment \in Deployments : HandlerInit(deployment)
    /\ bal = NoBal

Next ==
    \/ \E w \in Workers, request \in Requests(env.fleet, env.statuses, env.reports),
          err \in {"", StoreDown} :
           HeartbeatGet(w, request, err)
    \/ \E w \in Workers, err \in {"", StoreDown} : HeartbeatRecord(w, err)
    \/ \E w \in Workers, err \in {"", StoreDown} : HeartbeatGetState(w, err)
    \/ \E w \in Workers, err \in {"", "ErrVersionConflict", StoreDown} :
           HeartbeatUpdate(w, err)
    \/ Tick
    \/ \E sorted \in Perms(SortedShards(Unassigned)), create \in BOOLEAN :
           BalancerTick(sorted, create)

\* The handler (the draft that smooths from ShardMetrics), one worker, with
\* the namespace processor and the time source running beside it.
Spec == Init /\ [][Next]_vars

\* Two executors that change status while the namespace processor runs, or
\* one executor whose heartbeats are served by two workers at once.
RaceDeployments ==
    {[workers |-> {"w1"}, fleet |-> Executors, statuses |-> ExecutorStatuses,
      reports |-> {Map([s \in Shards |-> Report(Fin(2 * Scale))])}],
     [workers |-> Workers, fleet |-> {"exec-1"}, statuses |-> {"ACTIVE"},
      reports |-> {Map(EmptyMap)}]}
RaceInit ==
    /\ \E deployment \in RaceDeployments : HandlerInit(deployment)
    /\ bal = NoBal
\* The handler with the interleavings of a reassignment and of a second worker.
RaceSpec == RaceInit /\ [][Next]_vars

\* One executor served by two workers, some time after its first heartbeat:
\* the store holds its heartbeat of time 0, s1 is assigned to it and has
\* metrics, s2 is not assigned yet, and the refresh interval has passed.
OverlapInit ==
    /\ clock = _heartbeatRefreshRate * TicksPerSec
    /\ heartbeats =
           [e \in Executors |->
               IF e = "exec-1"
               THEN [present |-> TRUE, LastHeartbeat |-> 0, Status |-> "ACTIVE",
                     ReportedShards |-> NilMap]
               ELSE NoHeartbeat]
    /\ assignedStates =
           [e \in Executors |->
               IF e = "exec-1"
               THEN [present |-> TRUE, AssignedShards |-> Map("s1" :> "READY")]
               ELSE NoAssignedState]
    /\ shardMetrics =
           "s1" :> [SmoothedLoad |-> Fin(0), LastUpdateTime |-> 0, LastMoveTime |-> 0]
    /\ calls = [w \in Workers |-> IdleCall]
    /\ nCalls = 0
    /\ env = [workers |-> Workers, fleet |-> {"exec-1"}, statuses |-> {"ACTIVE"},
              reports |-> {Map([s \in Shards |-> Report(Fin(2 * Scale))])}]
    /\ bal = NoBal
\* The handler with two workers serving one executor's heartbeats.
OverlapSpec == OverlapInit /\ [][Next]_vars

\* ------------------------------------------------- the balancer functions

BalExecutors == {ExecutorNames[i] : i \in 1..3}
BalShards == {ShardNames[i] : i \in 1..3}
\* The executors a namespace may have.
BalFleets == {{"exec-1", "exec-2"}, BalExecutors}
\* The statistics a shard may have: a load, and a last move that is
\* CoolDownTime seconds old (still cooling down) or one second older.
BalEntries ==
    [SmoothedLoad : {Fin(1), Fin(2), NaN}, LastUpdateTime : {BalNow},
     LastMoveTime : {BalNow - CoolDownTime, BalNow - CoolDownTime - 1}]
BalStats ==
    {Stats(m) : m \in UNION {[S -> BalEntries] : S \in SUBSET BalShards}}

\* The inputs: each shard owned by an executor of the fleet or by none, any
\* statistics; the functions have not been applied yet.
BalInit ==
    /\ clock = TicksPerSec
    /\ heartbeats = [e \in Executors |-> NoHeartbeat]
    /\ assignedStates = [e \in Executors |-> NoAssignedState]
    /\ shardMetrics = EmptyMap
    /\ calls = [w \in Workers |-> IdleCall]
    /\ nCalls = 0
    /\ env = [workers |-> {}, fleet |-> {}, statuses |-> {}, reports |-> {}]
    /\ \E fleet \in BalFleets, stats \in BalStats :
        \E owner \in [BalShards -> fleet \cup {"none"}] :
           bal = [NoBal EXCEPT
                    !.pc = "init", !.now = BalNow, !.stats = stats,
                    !.assignments =
                        [e \in fleet |-> SortedShards({s \in BalShards : owner[s] = e})],
                    !.unassigned = {s \in BalShards : owner[s] = "none"}]

\* computeExecutorLoads, the sort, then assignUnassignedShards.
BalAssign(sorted) ==
    /\ bal.pc = "init"
    /\ sorted \in SortedByLoadDesc(SortedShards(bal.unassigned), bal.stats)
    /\ \E loads \in {computeExecutorLoads(bal.assignments, bal.stats)} :
       \E plan \in {assignUnassignedShards(sorted, loads, bal.stats,
                                            Assignments(bal.assignments))} :
          bal' = [bal EXCEPT
                    !.pc = "assigned", !.shards = sorted, !.loads = loads,
                    !.plan = plan.m, !.nilPlan = plan.nil,
                    !.arguments =
                        assignUnassignedShardsArguments(
                            SortedShards(bal.unassigned), sorted, loads, bal.stats,
                            Assignments(bal.assignments)),
                    !.merged = [e \in DOMAIN bal.assignments |->
                                   bal.assignments[e] \o GetSeq(plan.m, e)]]
    /\ UNCHANGED <<clock, heartbeats, assignedStates, shardMetrics, calls, nCalls, env>>

\* redistributeToEmptyExecutors over the assignments with the plan applied.
BalRedistribute ==
    /\ bal.pc = "assigned"
    /\ \E loads \in {computeExecutorLoads(bal.merged, bal.stats)} :
       \E red \in {redistributeToEmptyExecutors(loads, bal.stats, bal.merged, bal.now)} :
          bal' = [bal EXCEPT
                    !.pc = "done", !.nilSteals = red.nilSteals, !.steals = red.steals,
                    !.callerLoads = loads, !.loadsAfter = red.loads,
                    !.updatedLoads = red.updatedLoads, !.left = red.assignments]
    /\ UNCHANGED <<clock, heartbeats, assignedStates, shardMetrics, calls, nCalls, env>>

BalNext ==
    \/ \E sorted \in Perms(SortedShards(bal.unassigned)) : BalAssign(sorted)
    \/ BalRedistribute

\* The balancer functions applied to every input of the bounded sets.
BalSpec == BalInit /\ [][BalNext]_vars

\* ------------------------------------------------- the functions on their own

MaxLoad == 2
MaxCount == 2
\* The loads maps: any executors, each with a load of 0..MaxLoad.
FnLoads == UNION {[S -> 0..MaxLoad] : S \in SUBSET BalExecutors}
\* The counts maps: an executor may have no entry (counts[id] is then 0).
FnCounts == UNION {[S -> 0..MaxCount] : S \in SUBSET BalExecutors}

\* The handler and the store, which the functions do not touch.
FnHandlerOff ==
    /\ clock = TicksPerSec
    /\ heartbeats = [e \in Executors |-> NoHeartbeat]
    /\ assignedStates = [e \in Executors |-> NoAssignedState]
    /\ shardMetrics = EmptyMap
    /\ calls = [w \in Workers |-> IdleCall]
    /\ nCalls = 0
    /\ env = [workers |-> {}, fleet |-> {}, statuses |-> {}, reports |-> {}]

\* The arguments of findLeastLoadedExecutor.
LeastInit ==
    \E loads \in FnLoads, counts \in FnCounts :
        /\ DOMAIN counts \subseteq DOMAIN loads
        /\ bal = [NoBal EXCEPT !.pc = "least-init", !.loads = loads, !.counts = counts]

\* findLeastLoadedExecutor(loads, counts).
FindLeastLoaded ==
    /\ bal.pc = "least-init"
    /\ bal' = [bal EXCEPT !.pc = "least-done",
                          !.least = findLeastLoadedExecutor(bal.loads, bal.counts)]
    /\ UNCHANGED <<clock, heartbeats, assignedStates, shardMetrics, calls, nCalls, env>>

FnShards == {"s1", "s2"}
\* The stats argument: nil, empty, or an entry for every shard.
FnStats ==
    {NilStats, Stats(EmptyMap)} \cup
    {Stats([s \in FnShards |-> [SmoothedLoad |-> Fin(IF s = "s1" THEN a ELSE b),
                                LastUpdateTime |-> BalNow, LastMoveTime |-> 0]]) :
        a, b \in 1..MaxLoad}
\* The currentAssignments argument: nil, empty, or exec-1 holding a shard.
FnAssignments ==
    {NilAssignments, Assignments(EmptyMap), Assignments("exec-1" :> <<"s3">>)}

\* The arguments of assignUnassignedShards, the nil and the empty ones included.
AssignInit ==
    \E unassigned \in SUBSET FnShards, loads \in FnLoads, stats \in FnStats,
       current \in FnAssignments :
        bal = [NoBal EXCEPT !.pc = "assign-init", !.unassigned = unassigned,
                            !.loads = loads, !.stats = stats, !.current = current]

\* assignUnassignedShards(unassigned, loads, stats, currentAssignments).
AssignUnassigned(sorted) ==
    /\ bal.pc = "assign-init"
    /\ sorted \in SortedByLoadDesc(SortedShards(bal.unassigned), bal.stats)
    /\ \E plan \in {assignUnassignedShards(sorted, bal.loads, bal.stats, bal.current)} :
          bal' = [bal EXCEPT !.pc = "assign-done", !.shards = sorted,
                             !.plan = plan.m, !.nilPlan = plan.nil]
    /\ UNCHANGED <<clock, heartbeats, assignedStates, shardMetrics, calls, nCalls, env>>

\* The smoothed loads a statistics entry may hold: finite ones (a negative
\* one included), NaN and the two infinities.
FnSmoothedLoads == {Fin(1), Fin(2), Fin(-1), NaN, PosInf, NegInf}
\* The arguments of computeExecutorLoads: one or two executors, each shard
\* held by one of them or by none; stats nil or with entries for some shards.
LoadsInit ==
    \E fleet \in {{"exec-1"}, {"exec-1", "exec-2"}} :
    \E owner \in [BalShards -> fleet \cup {"none"}] :
    \E stats \in {NilStats} \cup
                 {Stats([s \in DOMAIN m |->
                            [SmoothedLoad |-> m[s], LastUpdateTime |-> BalNow,
                             LastMoveTime |-> 0]]) :
                      m \in UNION {[S -> FnSmoothedLoads] : S \in SUBSET BalShards}} :
        bal = [NoBal EXCEPT
                 !.pc = "loads-init", !.stats = stats,
                 !.assignments =
                     [e \in fleet |-> SortedShards({s \in BalShards : owner[s] = e})]]

\* computeExecutorLoads(assignments, stats).
ComputeLoads ==
    /\ bal.pc = "loads-init"
    /\ bal' = [bal EXCEPT !.pc = "loads-done",
                          !.loads = computeExecutorLoads(bal.assignments, bal.stats)]
    /\ UNCHANGED <<clock, heartbeats, assignedStates, shardMetrics, calls, nCalls, env>>

\* The reports a request of the draft that smooths from the previous
\* heartbeat may carry, and the reports its previous heartbeat may hold.
SmoothCurrent ==
    {NilMap} \cup
    {Map(m) : m \in UNION {[S -> {Report(Fin(2 * Scale)), Report(NaN), Report(PosInf),
                                   Report(NegInf), NilReport}] : S \in SUBSET BalShards}}
SmoothPrevious ==
    {NilMap} \cup
    {Map(m) : m \in UNION {[S -> {Report(Fin(Scale)), NilReport}] : S \in SUBSET BalShards}}

\* A Heartbeat of that draft past the rate gate: exec-1 has no heartbeat or
\* one that is _heartbeatRefreshRate old, with any previous reports.
SmoothInit ==
    /\ clock = _heartbeatRefreshRate * TicksPerSec
    /\ assignedStates = [e \in Executors |-> NoAssignedState]
    /\ shardMetrics = EmptyMap
    /\ nCalls = 1
    /\ env = [workers |-> {"w1"}, fleet |-> {"exec-1"}, statuses |-> {"ACTIVE"},
              reports |-> SmoothCurrent]
    /\ bal = NoBal
    /\ \E previous \in SmoothPrevious, found \in BOOLEAN :
          heartbeats =
              [e \in Executors |->
                  IF e = "exec-1" /\ found
                  THEN [present |-> TRUE, LastHeartbeat |-> 0, Status |-> "ACTIVE",
                        ReportedShards |-> previous]
                  ELSE NoHeartbeat]
    /\ \E current \in SmoothCurrent :
          calls =
              [w \in Workers |->
                  IF w = "w1"
                  THEN [IdleCall EXCEPT
                          !.pc = "smooth", !.id = 1, !.now = clock,
                          !.request = [ExecutorID |-> "exec-1", Status |-> "ACTIVE",
                                       ShardStatusReports |-> current]]
                  ELSE IdleCall]

\* smoothShardLoads and the HeartbeatState built from what it returns.
SmoothShardLoads ==
    /\ calls["w1"].pc = "smooth"
    /\ calls' = [calls EXCEPT
                   !["w1"].pc = "smoothed",
                   !["w1"].newHeartbeat =
                       newHeartbeatState(heartbeats[calls["w1"].request.ExecutorID],
                                         calls["w1"].request, calls["w1"].now)]
    /\ UNCHANGED <<clock, heartbeats, assignedStates, shardMetrics, nCalls, env, bal>>

FnInit == (FnHandlerOff /\ (LeastInit \/ AssignInit \/ LoadsInit)) \/ SmoothInit
FnNext ==
    \/ FindLeastLoaded
    \/ SmoothShardLoads
    \/ ComputeLoads
    \/ \E sorted \in Perms(SortedShards(bal.unassigned)) : AssignUnassigned(sorted)
\* Each function applied once to arguments of the bounded sets.
FnSpec == FnInit /\ [][FnNext]_vars

\* -------------------------------------------------------------- properties

\* The shard ids of an AssignedState as GetHeartbeat returned it.
AssignedSet(assignedShards) ==
    IF assignedShards.present THEN DOMAIN assignedShards.AssignedShards.m ELSE {}
LastOp(call) == call.ops[Len(call.ops)]
\* The step in which worker w starts a call: GetHeartbeat, Now(), the gate.
Started(w) == calls'[w].id # calls[w].id
\* The step in which worker w's call makes the store call `name`.
Calls(w, name) ==
    /\ calls'[w].id = calls[w].id
    /\ Len(calls'[w].ops) = Len(calls[w].ops) + 1
    /\ LastOp(calls'[w]).op = name
\* GetHeartbeat returned a state, or ErrExecutorNotFound, to the call started.
ReadDone(w) == calls'[w].ops[1].err \in {"", "ErrExecutorNotFound"}
\* The gate condition as the steps before and after the start of w's call
\* show it: a previous heartbeat of the same status less than 2 s old.
GateCondition(w) ==
    LET previous == heartbeats[calls'[w].request.ExecutorID]
    IN /\ calls'[w].ops[1].err = ""
       /\ previous.present
       /\ calls'[w].request.Status = previous.Status
       /\ clock - previous.LastHeartbeat * TicksPerSec < 2 * TicksPerSec

\* C1: a call that finds a previous heartbeat of the same status less than
\* 2 s old returns at once: GetHeartbeat is its only store call, the store
\* is left as it was, and the response carries the assignment GetHeartbeat
\* returned.
C1_RateGate ==
    [][\A w \in Workers :
          (Started(w) /\ GateCondition(w)) =>
              LET e == calls'[w].request.ExecutorID
              IN /\ calls'[w].pc = "done"
                 /\ calls'[w].ops = <<Op("GetHeartbeat", "")>>
                 /\ calls'[w].result.kind = "ok"
                 /\ calls'[w].result.ShardAssignments =
                        (IF assignedStates[e].present
                         THEN assignedStates[e].AssignedShards ELSE NilMap)
                 /\ UNCHANGED <<heartbeats, assignedStates, shardMetrics>>]_vars

\* A call gated one tick before the 2 s are over, answering with the
\* executor's shards.
C1_Witness ==
    \E w \in Workers :
        LET call == calls[w]
            previous == heartbeats[call.request.ExecutorID]
        IN /\ call.pc = "done" /\ call.quiet /\ call.gated
           /\ previous.present /\ previous.Status = call.request.Status
           /\ clock - previous.LastHeartbeat * TicksPerSec = 2 * TicksPerSec - 1
           /\ call.ops = <<Op("GetHeartbeat", "")>>
           /\ call.result.kind = "ok"
           /\ ~call.result.ShardAssignments.nil
           /\ DOMAIN call.result.ShardAssignments.m # {}

\* C2: the map a call passes to UpdateShardMetrics holds only shards that
\* are in the AssignedState GetHeartbeat returned and in the request's
\* reports; the store call changes no entry of another shard.
C2_AssignedAndReported ==
    /\ [](\A w \in Workers :
             DOMAIN calls[w].newShardMetrics \subseteq
                 AssignedSet(calls[w].assignedShards)
                     \cap DOMAIN calls[w].request.ShardStatusReports.m)
    /\ [][\A w \in Workers :
             Calls(w, "UpdateShardMetrics") =>
                 /\ calls[w].pc = "update"
                 /\ calls'[w].newShardMetrics = calls[w].newShardMetrics
                 /\ \A s \in DOMAIN shardMetrics' :
                        s \notin DOMAIN calls[w].newShardMetrics =>
                            s \in DOMAIN shardMetrics /\ shardMetrics'[s] = shardMetrics[s]]_vars

\* A call about to write the shard it owns while it also reports a shard of
\* the state that another executor owns.
C2_Witness ==
    \E w \in Workers, s, t \in Shards :
        LET call == calls[w]
        IN /\ call.pc = "update" /\ call.quiet
           /\ s \in DOMAIN call.newShardMetrics
           /\ t \in DOMAIN call.request.ShardStatusReports.m
           /\ t \in DOMAIN shardMetrics
           /\ t \notin AssignedSet(call.assignedShards)
           /\ t \notin DOMAIN call.newShardMetrics
           /\ \E e \in Executors : e # call.request.ExecutorID /\ t \in Owned(e)

\* C3: a call whose UpdateShardMetrics returned ErrVersionConflict returns
\* success with the assignment GetHeartbeat returned.
C3_VersionConflictSwallowed ==
    \A w \in Workers :
        LET call == calls[w]
        IN (call.pc = "done" /\ Len(call.ops) > 0
              /\ LastOp(call) = Op("UpdateShardMetrics", "ErrVersionConflict")) =>
               /\ call.result.kind = "ok"
               /\ call.result.ShardAssignments = _convertResponse(call.assignedShards)

\* C4: for every shard a heartbeat reports and GetHeartbeat returned as
\* assigned, the smoothed load handed to the store is
\* 0.1*report + 0.9*previous when a heartbeat has stored a smoothed load
\* before, and the reported load itself when none has (no entry, or an
\* entry never updated).
C4_EwmaFromFirstReport ==
    [][\A w \in Workers :
          (Calls(w, "GetState") /\ LastOp(calls'[w]).err = ""
              /\ calls'[w].result.kind # "panic") =>
              LET reports == calls[w].request.ShardStatusReports.m
              IN \A s \in AssignedSet(calls[w].assignedShards) \cap DOMAIN reports :
                    /\ s \in DOMAIN calls'[w].newShardMetrics
                    /\ calls'[w].newShardMetrics[s].SmoothedLoad =
                           (IF s \in DOMAIN shardMetrics /\ shardMetrics[s].LastUpdateTime # 0
                            THEN Ewma(reports[s].ShardLoad, shardMetrics[s].SmoothedLoad)
                            ELSE reports[s].ShardLoad)]_vars

\* C5: a successful response never carries a nil ShardAssignments map.
C5_ResponseMapNotNil ==
    \A w \in Workers :
        (calls[w].pc = "done" /\ calls[w].result.kind = "ok") =>
            ~calls[w].result.ShardAssignments.nil

\* The places <<executor, index>> at which a plan lists shard s.
Places(plan, s) ==
    {p \in UNION {{e} \X (1..Len(plan[e])) : e \in DOMAIN plan} : plan[p[1]][p[2]] = s}

\* C6: given at least one unassigned shard and a non-empty loads map,
\* assignUnassignedShards returns a plan that lists every input shard at
\* exactly one place, lists no other shard, and has only executors of the
\* loads map as keys.
C6_EachShardPlacedOnce ==
    (bal.pc \in {"assigned", "done"} /\ Len(bal.shards) > 0 /\ DOMAIN bal.loads # {}) =>
        /\ \A s \in Range(bal.shards) : Cardinality(Places(bal.plan, s)) = 1
        /\ \A e \in DOMAIN bal.plan :
              /\ e \in DOMAIN bal.loads
              /\ Range(bal.plan[e]) \subseteq Range(bal.shards)

\* Two shards placed, both on the one executor that carries no load yet,
\* while the executor that owns the third shard gets none.
C6_Witness ==
    /\ bal.pc = "assigned"
    /\ Len(bal.shards) = 2
    /\ Cardinality(DOMAIN bal.loads) = 2
    /\ \E e \in DOMAIN bal.plan :
          /\ DOMAIN bal.plan = {e}
          /\ Len(bal.plan[e]) = 2
          /\ Len(bal.assignments[e]) = 0

\* C7: redistributeToEmptyExecutors gives an executor at most one stolen
\* shard, gives shards to empty executors only, and every stolen shard was
\* last moved more than 60 s before now.
C7_OneStealPastCooldown ==
    bal.pc = "done" =>
        \A e \in DOMAIN bal.steals :
            /\ Len(bal.steals[e]) <= 1
            /\ e \in DOMAIN bal.merged /\ Len(bal.merged[e]) = 0
            /\ \A i \in 1..Len(bal.steals[e]) :
                  LET s == bal.steals[e][i]
                  IN /\ s \in DOMAIN bal.stats.m
                     /\ bal.now - bal.stats.m[s].LastMoveTime > 60

\* An empty executor was given a shard while a heavier shard of a donor,
\* moved exactly 60 s ago, stayed where it was.
C7_Witness ==
    /\ bal.pc = "done"
    /\ \E e \in DOMAIN bal.steals, d \in DOMAIN bal.merged :
          /\ Len(bal.steals[e]) = 1
          /\ d # e
          /\ \E i \in 1..Len(bal.merged[d]) :
                LET t == bal.merged[d][i]
                IN /\ bal.now - bal.stats.m[t].LastMoveTime = 60
                   /\ shardLoad(bal.stats, t) > shardLoad(bal.stats, bal.steals[e][1])
                   /\ t \in Range(bal.left[d])

C9_RecordsOnce ==
    [][\A w \in Workers :
          /\ (Started(w) /\ ReadDone(w) /\ ~GateCondition(w)) =>
                 /\ calls'[w].pc = "record"
                 /\ calls'[w].newHeartbeat.present
                 /\ calls'[w].newHeartbeat.LastHeartbeat = clock \div TicksPerSec
                 /\ calls'[w].newHeartbeat.Status = calls'[w].request.Status
          /\ (calls[w].pc = "record" /\ calls'[w].pc # "record") =>
                 /\ Calls(w, "RecordHeartbeat")
                 /\ LastOp(calls'[w]).err = "" =>
                        LET stored == heartbeats'[calls[w].request.ExecutorID]
                        IN /\ stored.present
                           /\ stored.LastHeartbeat = calls[w].newHeartbeat.LastHeartbeat
                           /\ stored.Status = calls[w].request.Status
          /\ TimesCalled(calls'[w], "RecordHeartbeat") <= 1
          /\ (calls'[w].pc \in {"state", "update"}
                \/ (calls'[w].pc = "done" /\ ~calls'[w].gated
                      /\ ~getHeartbeatFatal(calls'[w].ops[1].err))) =>
                 TimesCalled(calls'[w], "RecordHeartbeat") = 1]_vars

\* A call past the gate, its heartbeat built, although the previous
\* heartbeat is less than 2 s old: the status has changed.
C9_Witness ==
    \E w \in Workers :
        LET call == calls[w]
            previous == heartbeats[call.request.ExecutorID]
        IN /\ call.pc = "record"
           /\ previous.present
           /\ previous.Status # call.request.Status
           /\ clock - previous.LastHeartbeat * TicksPerSec < 2 * TicksPerSec
           /\ call.newHeartbeat.Status = call.request.Status
           /\ call.newHeartbeat.LastHeartbeat = clock \div TicksPerSec

\* C10: a call whose GetHeartbeat failed with an error other than
\* ErrExecutorNotFound returns an error wrapping that error, has made no
\* other store call, and has left the store as it was.
C10_ReadErrorIsFatal ==
    /\ [](\A w \in Workers :
             LET call == calls[w]
             IN (Len(call.ops) > 0
                   /\ call.ops[1].err \notin {"", "ErrExecutorNotFound"}) =>
                    /\ call.pc = "done"
                    /\ call.ops = <<Op("GetHeartbeat", call.ops[1].err)>>
                    /\ call.result.kind = "error"
                    /\ call.result.wrap = "get heartbeat"
                    /\ call.result.cause = call.ops[1].err)
    /\ [][\A w \in Workers :
             (Started(w) /\ ~ReadDone(w)) =>
                 UNCHANGED <<heartbeats, assignedStates, shardMetrics>>]_vars

\* A call failed by the store although the executor has a heartbeat stored.
C10_Witness ==
    \E w \in Workers :
        /\ calls[w].pc = "done"
        /\ calls[w].ops = <<Op("GetHeartbeat", StoreDown)>>
        /\ calls[w].result = Failure("get heartbeat", StoreDown)
        /\ heartbeats[calls[w].request.ExecutorID].present

\* C11: a first heartbeat (GetHeartbeat returned ErrExecutorNotFound) that
\* carries no shard reports and meets no store error succeeds after
\* RecordHeartbeat and GetState, without UpdateShardMetrics, and its response
\* carries an empty, non-nil assignment map.
C11_FirstHeartbeat ==
    \A w \in Workers :
        LET call == calls[w]
        IN (call.pc = "done"
              /\ call.ops[1] = Op("GetHeartbeat", "ErrExecutorNotFound")
              /\ DOMAIN call.request.ShardStatusReports.m = {}
              /\ \A i \in 2..Len(call.ops) : call.ops[i].err = "") =>
               /\ call.ops = <<Op("GetHeartbeat", "ErrExecutorNotFound"),
                               Op("RecordHeartbeat", ""), Op("GetState", "")>>
               /\ call.result.kind = "ok"
               /\ call.result.ShardAssignments = Map(EmptyMap)

\* C12: every SmoothedLoad the store holds is finite and non-negative,
\* whatever loads the heartbeats reported.
C12_StoredLoadFinite ==
    \A s \in DOMAIN shardMetrics :
        /\ shardMetrics[s].SmoothedLoad.k = "fin"
        /\ shardMetrics[s].SmoothedLoad.v >= 0

\* The lexicographically smallest id of a non-empty set of executors.
SmallestId(S) == CHOOSE x \in S : \A y \in S \ {x} : ExecLess(x, y)
\* The smallest load of a non-empty loads map.
MinLoad(loads) ==
    CHOOSE v \in {loads[e] : e \in DOMAIN loads} : \A e \in DOMAIN loads : v <= loads[e]
AllTied(loads, counts) ==
    \A x, y \in DOMAIN loads : loads[x] = loads[y] /\ Get(counts, x) = Get(counts, y)

\* C13: for a non-empty loads map whose executors all have the same load and
\* the same count, findLeastLoadedExecutor returns the lexicographically
\* smallest executor id and no error.
C13_SmallestIdOnTie ==
    (bal.pc = "least-done" /\ DOMAIN bal.loads # {} /\ AllTied(bal.loads, bal.counts)) =>
        bal.least = [id |-> SmallestId(DOMAIN bal.loads), err |-> FALSE]
C13_Witness ==
    /\ bal.pc = "least-done"
    /\ DOMAIN bal.loads = BalExecutors
    /\ AllTied(bal.loads, bal.counts)
    /\ bal.least.id = "exec-1"

\* C14: for a non-empty loads map findLeastLoadedExecutor returns an executor
\* with the minimum load, and no executor tied at the minimum load has a
\* smaller count than the one returned.
C14_MinLoadThenCount ==
    (bal.pc = "least-done" /\ DOMAIN bal.loads # {}) =>
        /\ ~bal.least.err
        /\ bal.least.id \in DOMAIN bal.loads
        /\ bal.loads[bal.least.id] = MinLoad(bal.loads)
        /\ \A e \in DOMAIN bal.loads :
              bal.loads[e] = MinLoad(bal.loads) =>
                  Get(bal.counts, bal.least.id) <= Get(bal.counts, e)
\* All loads are zero, exec-1 holds a shard and exec-2 none: exec-2 is returned.
C14_Witness ==
    /\ bal.pc = "least-done"
    /\ bal.loads = [e \in {"exec-1", "exec-2"} |-> 0]
    /\ Get(bal.counts, "exec-1") = 1
    /\ Get(bal.counts, "exec-2") = 0
    /\ bal.least.id = "exec-2"

\* The executor the plan gives shard s to.
PlacedOn(s) == CHOOSE e \in DOMAIN bal.plan : s \in Range(bal.plan[e])
\* The positions before i of bal.shards whose shard the plan gives to e.
PlacedBefore(e, i) == {j \in 1..(i - 1) : PlacedOn(bal.shards[j]) = e}
RECURSIVE SumLoads(_)
SumLoads(positions) ==
    IF positions = {} THEN 0
    ELSE LET j == CHOOSE x \in positions : TRUE
         IN shardLoad(bal.stats, bal.shards[j]) + SumLoads(positions \ {j})
\* The load and the count of e when the i-th shard is placed.
RunningLoad(e, i) == bal.loads[e] + SumLoads(PlacedBefore(e, i))
RunningCount(e, i) == Len(bal.assignments[e]) + Cardinality(PlacedBefore(e, i))

\* C15: assignUnassignedShards places the shards in descending order of load,
\* each on the executor findLeastLoadedExecutor selects for the initial loads
\* and counts plus the shards placed before it in this call; the first shard
\* goes to an executor of the smallest existing load.
C15_HeaviestFirstToLeastLoaded ==
    bal.pc \in {"assigned", "done"} =>
        /\ \A i, j \in 1..Len(bal.shards) :
              i < j => shardLoad(bal.stats, bal.shards[i]) >= shardLoad(bal.stats, bal.shards[j])
        /\ \A i \in 1..Len(bal.shards) :
              /\ Cardinality(Places(bal.plan, bal.shards[i])) = 1
              /\ PlacedOn(bal.shards[i]) =
                     findLeastLoadedExecutor(
                         [e \in DOMAIN bal.loads |-> RunningLoad(e, i)],
                         [e \in DOMAIN bal.loads |-> RunningCount(e, i)]).id
        /\ \A e \in DOMAIN bal.plan :
              \A i, j \in 1..Len(bal.plan[e]) :
                  i < j => \E a, b \in 1..Len(bal.shards) :
                              a < b /\ bal.shards[a] = bal.plan[e][i]
                                    /\ bal.shards[b] = bal.plan[e][j]
        /\ Len(bal.shards) > 0 =>
              \A e \in DOMAIN bal.loads : bal.loads[PlacedOn(bal.shards[1])] <= bal.loads[e]
\* exec-1 carries more load than exec-2: the first (heaviest) shard goes to
\* exec-2, and the next one to exec-1, which is then the less loaded.
C15_Witness ==
    /\ bal.pc = "assigned"
    /\ DOMAIN bal.loads = {"exec-1", "exec-2"}
    /\ bal.loads["exec-1"] > bal.loads["exec-2"]
    /\ Len(bal.shards) = 2
    /\ shardLoad(bal.stats, bal.shards[1]) > shardLoad(bal.stats, bal.shards[2])
    /\ bal.plan = ("exec-2" :> <<bal.shards[1]>>) @@ ("exec-1" :> <<bal.shards[2]>>)

\* C16: assignUnassignedShards returns an empty map that is not nil whenever
\* the unassigned list is empty or the loads map is empty, the call with four
\* nil arguments included (the function has no error result).
C16_EmptyPlanNotNil ==
    (bal.pc = "assign-done" /\ (bal.unassigned = {} \/ DOMAIN bal.loads = {})) =>
        /\ ~bal.nilPlan
        /\ bal.plan = EmptyMap
\* assignUnassignedShards(nil, nil, nil, nil).
C16_Witness ==
    /\ bal.pc = "assign-done"
    /\ bal.unassigned = {}
    /\ DOMAIN bal.loads = {}
    /\ bal.stats = NilStats
    /\ bal.current = NilAssignments
    /\ ~bal.nilPlan
    /\ bal.plan = EmptyMap

\* The executors without a shard when redistributeToEmptyExecutors is called.
EmptyExecutors == {e \in DOMAIN bal.merged : bal.merged[e] = <<>>}
\* The shards past their cooldown, each with the executor that holds it.
EligibleDonors ==
    {d \in (DOMAIN bal.merged) \X BalShards :
        /\ d[2] \in Range(bal.merged[d[1]])
        /\ ~bal.stats.nil
        /\ d[2] \in DOMAIN bal.stats.m
        /\ bal.now - bal.stats.m[d[2]].LastMoveTime > CoolDownTime}
\* Weight descending, then donor executor id, then shard id.
DonorBefore(a, b) ==
    \/ shardLoad(bal.stats, a[2]) > shardLoad(bal.stats, b[2])
    \/ /\ shardLoad(bal.stats, a[2]) = shardLoad(bal.stats, b[2])
       /\ \/ ExecLess(a[1], b[1])
          \/ a[1] = b[1] /\ ShardLess(a[2], b[2])
NthDonor(i) ==
    CHOOSE d \in EligibleDonors :
        Cardinality({x \in EligibleDonors : DonorBefore(x, d)}) = i - 1
NthEmpty(i) ==
    CHOOSE e \in EmptyExecutors :
        Cardinality({x \in EmptyExecutors : ExecLess(x, e)}) = i - 1
Min(a, b) == IF a < b THEN a ELSE b
NumSteals == Min(Cardinality(EmptyExecutors), Cardinality(EligibleDonors))
\* The load redistributeToEmptyExecutors was given for e.
LoadBefore(e) == computeExecutorLoads(bal.merged, bal.stats)[e]
\* min(E, D) steals, the i-th empty executor taking the i-th donor shard, the
\* shard leaving its donor, and the loads following the shards.
StealsAsRanked ==
    /\ DOMAIN bal.steals = {NthEmpty(i) : i \in 1..NumSteals}
    /\ \A i \in 1..NumSteals : bal.steals[NthEmpty(i)] = <<NthDonor(i)[2]>>
    /\ \A e \in DOMAIN bal.merged :
          LET given == {i \in 1..NumSteals : NthDonor(i)[1] = e}
              taken == {i \in 1..NumSteals : NthEmpty(i) = e}
              Weight(i) == shardLoad(bal.stats, NthDonor(i)[2])
              Sum[S \in SUBSET (1..NumSteals)] ==
                  IF S = {} THEN 0
                  ELSE LET i == CHOOSE x \in S : TRUE IN Weight(i) + Sum[S \ {i}]
          IN /\ bal.updatedLoads[e] = LoadBefore(e) - Sum[given] + Sum[taken]
             /\ Range(bal.left[e]) =
                    Range(bal.merged[e]) \ {NthDonor(i)[2] : i \in given}
\* A shard of a non-empty executor has no statistics: FindElligbleShards fails.
StatsMissing ==
    EmptyExecutors # {} /\
    \E e \in DOMAIN bal.merged, s \in BalShards :
        s \in Range(bal.merged[e]) /\ (bal.stats.nil \/ s \notin DOMAIN bal.stats.m)
NoSteals ==
    /\ bal.nilSteals
    /\ bal.steals = EmptyMap
    /\ bal.updatedLoads = [e \in DOMAIN bal.merged |-> LoadBefore(e)]
    /\ bal.left = bal.merged

\* C17 as stated: with E empty executors and D eligible donor shards there are
\* exactly min(E, D) steals, the i-th empty executor receiving the i-th donor
\* shard, and the loads of donor and target move by the shard's weight.
C17_MinSteals == bal.pc = "done" => StealsAsRanked

\* C17, amended: that holds when every shard held by an executor has
\* statistics; when one has none and some executor is empty, the call makes
\* no steal at all and returns nil steals and the loads it was given.
C17_MinStealsWhenStatsComplete ==
    bal.pc = "done" => IF StatsMissing THEN NoSteals ELSE StealsAsRanked
\* Two empty executors, at least two eligible donors: two steals.
C17_Witness ==
    /\ bal.pc = "done"
    /\ ~StatsMissing
    /\ Cardinality(EmptyExecutors) = 2
    /\ Cardinality(EligibleDonors) >= 2
    /\ Cardinality(DOMAIN bal.steals) = 2

NonEmptyCount(assignments) ==
    Cardinality({e \in DOMAIN assignments : assignments[e] # <<>>})
\* The assignments once the steals are applied to what the call left.
AfterSteals == [e \in DOMAIN bal.left |-> bal.left[e] \o GetSeq(bal.steals, e)]

\* C18: an invocation of redistributeToEmptyExecutors that steals a shard
\* leaves strictly more non-empty executors than it found, and leaves no donor
\* empty.
C18_NonEmptyCountGrows ==
    (bal.pc = "done" /\ DOMAIN bal.steals # {}) =>
        /\ NonEmptyCount(AfterSteals) > NonEmptyCount(bal.merged)
        /\ \A e \in DOMAIN bal.merged : bal.merged[e] # <<>> => bal.left[e] # <<>>

\* The executors that hold shard s in an assignments map.
Holders(assignments, s) == {e \in DOMAIN assignments : s \in Range(assignments[e])}
\* How many times s is listed in a map of shard lists.
Listed(m, s) == Cardinality(Places(m, s))

\* C19: from assignments in which each shard has at most one executor, after
\* the plan of assignUnassignedShards and the steals of
\* redistributeToEmptyExecutors are applied each shard is listed at most once
\* over all executors, and no shard is listed twice in the steals.
C19_SingleOwnership ==
    bal.pc = "done" =>
        \A s \in BalShards :
            /\ Listed(AfterSteals, s) <= 1
            /\ Listed(bal.steals, s) <= 1
            /\ Listed(bal.steals, s) = 1 =>
                   /\ Listed(bal.left, s) = 0
                   /\ Listed(bal.merged, s) = 1
\* A shard was placed by the plan and another was stolen from its owner.
C19_Witness ==
    /\ bal.pc = "done"
    /\ DOMAIN bal.plan # {}
    /\ DOMAIN bal.steals # {}
    /\ \A s \in BalShards : Listed(AfterSteals, s) = 1

StoreCallOrder == <<"GetHeartbeat", "RecordHeartbeat", "GetState", "UpdateShardMetrics">>
OpNames(call) == [i \in 1..Len(call.ops) |-> call.ops[i].op]

\* C20: the store calls of a Heartbeat are, in this order, GetHeartbeat,
\* RecordHeartbeat, GetState and UpdateShardMetrics, the call stopping after
\* any of them; UpdateShardMetrics is never called before RecordHeartbeat has
\* succeeded, and a rate-gated call makes the first one only.
C20_RecordBeforeMetrics ==
    \A w \in Workers :
        LET call == calls[w]
        IN /\ OpNames(call) = SubSeq(StoreCallOrder, 1, Len(call.ops))
           /\ \A i \in 1..Len(call.ops) :
                 call.ops[i].op \in {"GetState", "UpdateShardMetrics"} =>
                     \E j \in 1..(i - 1) : call.ops[j] = Op("RecordHeartbeat", "")
           /\ call.gated => Len(call.ops) = 1
\* A call that made all four store calls and returned.
C20_Witness ==
    \E w \in Workers :
        /\ calls[w].pc = "done"
        /\ ~calls[w].gated
        /\ OpNames(calls[w]) = StoreCallOrder
        /\ calls[w].result.kind = "ok"

\* The shards the call read as assigned to its executor.
AssignedTo(call) ==
    IF call.assignedShards.present THEN DOMAIN call.assignedShards.AssignedShards.m ELSE {}
Reported(call) == DOMAIN call.request.ShardStatusReports.m
\* The request has no report for a shard assigned to the executor.
MissingReport(call) == AssignedTo(call) \ Reported(call) # {}
NoStoreError(call) ==
    \A i \in 1..Len(call.ops) : call.ops[i].err \in {"", "ErrExecutorNotFound"}
NoNilReport(call) ==
    \A s \in Reported(call) : ~call.request.ShardStatusReports.m[s].nilptr

\* C21: a heartbeat that has no report for a shard assigned to its executor
\* leaves the stored metrics of every shard it does not report as they are
\* (its metrics write does not touch them), and returns success when no store
\* call failed.
C21_MissingReportSkipped ==
    /\ [](\A w \in Workers :
             (calls[w].pc = "done" /\ ~calls[w].gated /\ MissingReport(calls[w])
                /\ NoStoreError(calls[w]) /\ NoNilReport(calls[w])) =>
                 calls[w].result.kind = "ok")
    /\ [][\A w \in Workers :
             (calls[w].pc = "update" /\ calls'[w].pc = "done") =>
                 \A s \in DOMAIN shardMetrics \ Reported(calls[w]) :
                     /\ s \in DOMAIN shardMetrics'
                     /\ shardMetrics'[s] = shardMetrics[s]]_vars
\* exec-1 owns s1 and s2, both with metrics, and reported s1 only: the call
\* wrote the metrics of s1 and returned success.
C21_Witness ==
    \E w \in Workers :
        /\ calls[w].pc = "done"
        /\ AssignedTo(calls[w]) = {"s1", "s2"}
        /\ Reported(calls[w]) = {"s1"}
        /\ {"s1", "s2"} \subseteq DOMAIN shardMetrics
        /\ LastOp(calls[w]) = Op("UpdateShardMetrics", "")
        /\ calls[w].result.kind = "ok"

\* C22: no Heartbeat call ends in a panic, whatever the request and the
\* contents of the store.
C22_NeverPanics ==
    \A w \in Workers : calls[w].result.kind # "panic"

\* C23: once a non-gated heartbeat that reports a shard assigned to its
\* executor has returned success, that shard has a ShardMetrics entry: the
\* heartbeat created the entry if there was none.
C23_HeartbeatCreatesMetrics ==
    \A w \in Workers :
        (calls[w].pc = "done" /\ ~calls[w].gated /\ calls[w].result.kind = "ok") =>
            (AssignedTo(calls[w]) \cap Reported(calls[w])) \subseteq DOMAIN shardMetrics

\* C24: the LastMoveTime the store holds for a shard changes only in a step
\* of the balancer that rewrites the assignments; no step of a Heartbeat
\* changes it.
C24_LastMoveTimeOnlyByBalancer ==
    [][\A s \in DOMAIN shardMetrics :
          (s \in DOMAIN shardMetrics'
             /\ shardMetrics'[s].LastMoveTime # shardMetrics[s].LastMoveTime) =>
              /\ assignedStates' # assignedStates
              /\ calls' = calls]_vars

\* C25: when a Heartbeat's UpdateShardMetrics succeeds, every shard it
\* writes is assigned, in the store at that moment, to the executor that sent
\* the heartbeat.
C25_WritesOnlyOwnedShards ==
    [][\A w \in Workers :
          (calls[w].pc = "update" /\ calls'[w].pc = "done"
             /\ LastOp(calls'[w]) = Op("UpdateShardMetrics", "")) =>
              DOMAIN calls[w].newShardMetrics \subseteq Owned(calls[w].request.ExecutorID)]_vars

\* The calls in flight or returned whose RecordHeartbeat took effect.
Recorded(w) == calls[w].recordedAt # {}
RecordTime(w) == CHOOSE t \in calls[w].recordedAt : TRUE
SameExecutorAndStatus(w, v) ==
    /\ calls[w].request.ExecutorID = calls[v].request.ExecutorID
    /\ calls[w].request.Status = calls[v].request.Status

\* C26: two Heartbeat calls of one executor with the same status, served by
\* different workers, never both write a heartbeat within
\* _heartbeatRefreshRate seconds of each other.
C26_OneRecordPerWindow ==
    \A w, v \in Workers :
        (w # v /\ Recorded(w) /\ Recorded(v) /\ SameExecutorAndStatus(w, v)) =>
            \/ RecordTime(w) - RecordTime(v) >= _heartbeatRefreshRate * TicksPerSec
            \/ RecordTime(v) - RecordTime(w) >= _heartbeatRefreshRate * TicksPerSec

\* C27: of two consecutive heartbeats of one executor with the same status
\* that both record a heartbeat, the second reads a time at least
\* _heartbeatRefreshRate seconds after the time the first read.
C27_RecordsTwoSecondsApart ==
    \A w \in Workers :
        (Recorded(w) /\ calls[w].previousNow # {}) =>
            \A t \in calls[w].previousNow :
                calls[w].now - t >= _heartbeatRefreshRate * TicksPerSec

\* C28: the HeartbeatState a Heartbeat passes to RecordHeartbeat, and the one
\* the store holds once the write took effect, has LastHeartbeat = now.Unix(),
\* Status = request.Status and ReportedShards = request.ShardStatusReports.
C28_HeartbeatStateWritten ==
    /\ [](\A w \in Workers :
             calls[w].pc = "record" =>
                 calls[w].newHeartbeat =
                     [present |-> TRUE, LastHeartbeat |-> calls[w].now \div TicksPerSec,
                      Status |-> calls[w].request.Status,
                      ReportedShards |-> calls[w].request.ShardStatusReports])
    /\ [][\A w \in Workers :
             (calls[w].pc = "record" /\ calls'[w].recordedAt # {}) =>
                 heartbeats'[calls[w].request.ExecutorID] =
                     [present |-> TRUE, LastHeartbeat |-> calls[w].now \div TicksPerSec,
                      Status |-> calls[w].request.Status,
                      ReportedShards |-> calls[w].request.ShardStatusReports]]_vars
\* The store holds the heartbeat of a call that read the time in mid-second
\* and reported a load for s1.
C28_Witness ==
    \E w \in Workers :
        LET call == calls[w]
        IN /\ call.recordedAt # {}
           /\ call.now % TicksPerSec # 0
           /\ "s1" \in Reported(call)
           /\ heartbeats[call.request.ExecutorID].ReportedShards =
                  call.request.ShardStatusReports
           /\ heartbeats[call.request.ExecutorID].LastHeartbeat * TicksPerSec < call.now

\* C29: a Heartbeat whose RecordHeartbeat failed has returned an error that
\* wraps the store's error, RecordHeartbeat was its last store call (no
\* GetState, no UpdateShardMetrics), and the failing step left the heartbeats
\* and the ShardMetrics of the store as they were.
C29_RecordFailureStops ==
    /\ [](\A w \in Workers :
             (\E i \in 1..Len(calls[w].ops) :
                  calls[w].ops[i].op = "RecordHeartbeat" /\ calls[w].ops[i].err # "") =>
                 /\ calls[w].pc = "done"
                 /\ LastOp(calls[w]).op = "RecordHeartbeat"
                 /\ calls[w].result = Failure("record heartbeat", LastOp(calls[w]).err)
                 /\ ~Called(calls[w], "GetState")
                 /\ ~Called(calls[w], "UpdateShardMetrics"))
    /\ [][\A w \in Workers :
             (calls[w].pc = "record" /\ calls'[w].pc # "record"
                /\ LastOp(calls'[w]).err # "") =>
                 /\ shardMetrics' = shardMetrics
                 /\ heartbeats' = heartbeats]_vars
\* RecordHeartbeat failed for a call that reports a shard assigned to its
\* executor and holding metrics: there was a metrics update to make.
C29_Witness ==
    \E w \in Workers :
        /\ calls[w].pc = "done"
        /\ LastOp(calls[w]) = Op("RecordHeartbeat", StoreDown)
        /\ calls[w].result.kind = "error"
        /\ AssignedTo(calls[w]) \cap Reported(calls[w]) \cap DOMAIN shardMetrics # {}

\* C30: a Heartbeat for which no shard is both assigned to the executor and
\* reported in the request, or whose new metrics map is empty for another
\* reason, never calls UpdateShardMetrics, at any point of the call.
C30_NoWriteOfEmptyMetrics ==
    \A w \in Workers :
        (AssignedTo(calls[w]) \cap Reported(calls[w]) = {}
           \/ DOMAIN calls[w].newShardMetrics = {}) =>
            /\ ~Called(calls[w], "UpdateShardMetrics")
            /\ calls[w].pc # "update"
\* exec-1 owns shards that hold metrics and sent a non-gated heartbeat with
\* no report: the call ended with GetState and returned success.
C30_Witness ==
    \E w \in Workers :
        /\ calls[w].pc = "done"
        /\ AssignedTo(calls[w]) # {}
        /\ AssignedTo(calls[w]) \subseteq DOMAIN shardMetrics
        /\ Reported(calls[w]) = {}
        /\ LastOp(calls[w]) = Op("GetState", "")
        /\ calls[w].result.kind = "ok"

\* C31: the LastUpdateTime the store holds for a shard never decreases, and a
\* Heartbeat's metrics write sets it to the Unix seconds of a time the time
\* source showed during the call.
C31_LastUpdateTimeMonotonic ==
    [][/\ \A s \in DOMAIN shardMetrics :
             /\ s \in DOMAIN shardMetrics'
             /\ shardMetrics'[s].LastUpdateTime >= shardMetrics[s].LastUpdateTime
       /\ \A w \in Workers :
             (calls[w].pc = "update" /\ LastOp(calls'[w]) = Op("UpdateShardMetrics", "")) =>
                 \A s \in DOMAIN calls[w].newShardMetrics :
                     /\ shardMetrics'[s].LastUpdateTime >= Unix(calls[w].now)
                     /\ shardMetrics'[s].LastUpdateTime <= Unix(clock)]_vars

\* The call was interrupted between its two writes: RecordHeartbeat took
\* effect, and the call ended in updateShardload with an error before a
\* metrics write took effect.
Interrupted(call) ==
    /\ call.pc = "done"
    /\ call.result.kind = "error"
    /\ call.result.wrap = "update shardload"
    /\ Succeeded(call, "RecordHeartbeat")
    /\ ~Succeeded(call, "UpdateShardMetrics")

\* C32: when a heartbeat was interrupted after RecordHeartbeat took effect and
\* before the metrics write, the next heartbeat of the same executor with the
\* same status is not stopped by the rate gate: it goes on to the writes that
\* bring the smoothed load up to date.
C32_NextHeartbeatCorrects ==
    [][\A w \in Workers :
          (/\ Started(w)
           /\ Interrupted(calls[w])
           /\ calls'[w].request.ExecutorID = calls[w].request.ExecutorID
           /\ calls'[w].request.Status = calls[w].request.Status
           /\ ReadDone(w)) =>
              ~calls'[w].gated]_vars

Counted(stats, s) ==
    IF stats.nil \/ s \notin DOMAIN stats.m THEN 0
    ELSE IF stats.m[s].SmoothedLoad.k \in {"nan", "inf"} THEN 0
    ELSE stats.m[s].SmoothedLoad.v
\* The sum of what the shards at the positions I of a list count for.
RECURSIVE CountedSum(_, _, _)
CountedSum(stats, shardIDs, I) ==
    IF I = {} THEN 0
    ELSE LET i == CHOOSE i \in I : TRUE
         IN Counted(stats, shardIDs[i]) + CountedSum(stats, shardIDs, I \ {i})

\* C34: computeExecutorLoads returns an entry for every executor key of
\* assignments and for no other: the sum of what its shards count for, which
\* is 0 for an executor without shards.
C34_ExecutorLoads ==
    bal.pc = "loads-done" =>
        /\ DOMAIN bal.loads = DOMAIN bal.assignments
        /\ \A e \in DOMAIN bal.assignments :
              /\ bal.loads[e] =
                     CountedSum(bal.stats, bal.assignments[e], DOMAIN bal.assignments[e])
              /\ bal.assignments[e] = <<>> => bal.loads[e] = 0
\* One executor has no shards; the other holds a shard with a finite load,
\* one without a statistics entry and one whose load is not finite.
C34_Witness ==
    /\ bal.pc = "loads-done"
    /\ \E e \in DOMAIN bal.assignments : bal.assignments[e] = <<>>
    /\ \E e \in DOMAIN bal.assignments :
          /\ bal.loads[e] = 2
          /\ \E s \in Range(bal.assignments[e]) : s \notin DOMAIN bal.stats.m
          /\ \E s \in Range(bal.assignments[e]) :
                s \in DOMAIN bal.stats.m /\ IsNonFinite(bal.stats.m[s].SmoothedLoad)

\* A shard of a non-empty executor has no statistics entry.
MissingEntry ==
    \E e \in DOMAIN bal.merged, s \in BalShards :
        s \in Range(bal.merged[e]) /\ (bal.stats.nil \/ s \notin DOMAIN bal.stats.m)

\* C35: redistributeToEmptyExecutors makes no steal, returns the loads it was
\* given and leaves the assignments as they were when there is no empty
\* executor, when no shard is past its cooldown, or when a shard of a
\* non-empty executor has no statistics entry.
C35_NoStealCases ==
    (bal.pc = "done" /\ (EmptyExecutors = {} \/ EligibleDonors = {} \/ MissingEntry)) =>
        /\ bal.nilSteals
        /\ DOMAIN bal.steals = {}
        /\ bal.updatedLoads = bal.callerLoads
        /\ bal.left = bal.merged
\* An executor is empty and a shard is past its cooldown, but another shard
\* has no statistics entry.
C35_Witness ==
    /\ bal.pc = "done"
    /\ EmptyExecutors # {}
    /\ EligibleDonors # {}
    /\ MissingEntry

\* The sum of the ShardLoad values of a reports map, by cases: NaN if one is
\* NaN or both infinities occur, else the infinity that occurs, else the
\* sum of the finite values.
RECURSIVE FiniteSum(_, _)
FiniteSum(reports, S) ==
    IF S = {} THEN 0
    ELSE LET s == CHOOSE s \in S : TRUE
         IN reports[s].ShardLoad.v + FiniteSum(reports, S \ {s})
SumOfShardLoads(reports) ==
    LET loads == {reports[s].ShardLoad : s \in DOMAIN reports}
    IN IF NaN \in loads \/ {PosInf, NegInf} \subseteq loads THEN NaN
       ELSE IF PosInf \in loads THEN PosInf
       ELSE IF NegInf \in loads THEN NegInf
       ELSE Fin(FiniteSum(reports, DOMAIN reports))
\* The shards of a request's reports map whose report is not nil.
NonNilReports(call) ==
    {s \in DOMAIN call.request.ShardStatusReports.m :
        ~call.request.ShardStatusReports.m[s].nilptr}

\* C36: in the draft that smooths from the previous heartbeat, the
\* AggregatedLoad of the HeartbeatState is the sum of the ShardLoad values of
\* its ReportedShards; ReportedShards holds the shards whose report is not nil
\* and no nil entry; when there is no such shard ReportedShards is nil and
\* AggregatedLoad is 0.
C36_AggregatedLoadIsSum ==
    \A w \in Workers :
        calls[w].pc = "smoothed" =>
            LET written == calls[w].newHeartbeat
            IN /\ written.AggregatedLoad = SumOfShardLoads(written.ReportedShards.m)
               /\ DOMAIN written.ReportedShards.m = NonNilReports(calls[w])
               /\ \A s \in DOMAIN written.ReportedShards.m :
                     ~written.ReportedShards.m[s].nilptr
               /\ NonNilReports(calls[w]) = {} =>
                     /\ written.ReportedShards.nil
                     /\ written.AggregatedLoad = Fin(0)
               /\ NonNilReports(calls[w]) # {} => ~written.ReportedShards.nil
\* Two shards with finite reports, one of them smoothed with a previous
\* report, written next to a nil report that is skipped.
C36_Witness ==
    \E w \in Workers :
        /\ calls[w].pc = "smoothed"
        /\ Cardinality(NonNilReports(calls[w])) = 2
        /\ Cardinality(DOMAIN calls[w].request.ShardStatusReports.m) = 3
        /\ calls[w].newHeartbeat.AggregatedLoad = Fin(2 * Scale + (11 * Scale) \div 10)

====
